---------------------------- MODULE Spec2Model ----------------------------
(***************************************************************************)
(* A model of zerotier-gui.py: the privileged command executor             *)
(* (run_command, run_zerotier_cli), the output extractor                   *)
(* (extract_first_json), the service controller (manage_service,           *)
(* get_service_status) and the start-up recovery procedure                 *)
(* (check_for_errors, resolve_unknown_error, reinstall_backend).           *)
(*                                                                         *)
(* Texts are sequences of one-character strings, so that the regular       *)
(* expression, the bracket scan, str.split and the substring tests of the  *)
(* program are computed character by character.  An optional value is a    *)
(* sequence of length at most one: None is << >> and Some(v) is << v >>.   *)
(***************************************************************************)
EXTENDS Integers, Sequences, FiniteSets, TLC

VARIABLES
    pc,             \* the statement the program is at
    callStack,      \* the return addresses of the calls in progress, innermost first
    SUDO_PASSWORD,  \* the global of lines 1731 and 1743 (none: ask_sudo_password gave None)
    settings,       \* ~/.config/zerotier-gui/settings.json as load_settings_no_class finds it
    ztDir,          \* whether /home/<user>/.zerotier-one exists
    mode,           \* the state of the recovery procedure ("Window" once it is over)
    steps,          \* the steps of the recovery run, or of the last toggle, in order
    probes,         \* the outcome of each 'listnetworks' probe of the recovery run
    reinstalls,     \* how many times the recovery run entered reinstall_backend
    msAction,       \* manage_service: the parameter action
    msLog,          \* manage_service: the invocations of the call, in order
    msResult,       \* manage_service: the returned value (none: None)
    running,        \* resolve_unknown_error: the local variable running
    call,           \* the call of run_command or run_zerotier_cli the latest step made
    serviceLabel,   \* update_service_label: the state shown
    payload,        \* extract_first_json: the argument
    extracted,      \* extract_first_json: the returned value (optional text)
    dump,           \* get_service_status: the text manage_service("show") returned
    status,         \* get_service_status: the returned value (none: KeyError)
    phase           \* "input" before the function under study is applied, "done" after

varsProgram ==
    << pc, callStack, SUDO_PASSWORD, settings, ztDir, mode, steps, probes, reinstalls,
       msAction, msLog, msResult, running, call, serviceLabel >>
varsExtract == << payload, extracted >>
varsStatus == << dump, status >>
vars == << varsProgram, varsExtract, varsStatus, phase >>

None == << >>
Some(v) == << v >>

(***************************************************************************)
(* Bounds of the model.                                                    *)
(***************************************************************************)
MaxTokens == 6
MaxDumpTokens == 5
MaxReinstalls == 2

(***************************************************************************)
(* Characters and texts.                                                   *)
(***************************************************************************)
\* "[sudo]", the literal the regular expression of extract_first_json looks for
SudoTag == << "[", "s", "u", "d", "o", "]" >>

\* " password for u: ", what sudo prints after the tag for the user "u"
PasswordFor ==
    << " ", "p", "a", "s", "s", "w", "o", "r", "d", " ", "f", "o", "r", " ", "u", ":", " " >>

\* f"[sudo] password for {get_user()}: " for the user "u"
Banner == SudoTag \o PasswordFor

Openers == { "{", "[" }
Closers == { "}", "]" }
Brackets == Openers \cup Closers

StartsWith(s, pre) == Len(s) >= Len(pre) /\ SubSeq(s, 1, Len(pre)) = pre

\* Python's `w in s` for strings
Contains(s, w) ==
    \E i \in 1..(Len(s) - Len(w) + 1) : SubSeq(s, i, i + Len(w) - 1) = w

\* str.replace(old, ""): every leftmost, non-overlapping occurrence is removed
RECURSIVE RemoveAll(_, _)
RemoveAll(s, old) ==
    IF s = << >> THEN << >>
    ELSE IF StartsWith(s, old) THEN RemoveAll(SubSeq(s, Len(old) + 1, Len(s)), old)
    ELSE << Head(s) >> \o RemoveAll(Tail(s), old)

Whitespace == { " ", "\n" }

RECURSIVE LStrip(_)
LStrip(s) == IF s # << >> /\ Head(s) \in Whitespace THEN LStrip(Tail(s)) ELSE s

RECURSIVE RStrip(_)
RStrip(s) ==
    IF s # << >> /\ s[Len(s)] \in Whitespace THEN RStrip(SubSeq(s, 1, Len(s) - 1)) ELSE s

\* str.strip()
Strip(s) == RStrip(LStrip(s))

RECURSIVE Flatten(_)
Flatten(ss) == IF ss = << >> THEN << >> ELSE Head(ss) \o Flatten(Tail(ss))

(***************************************************************************)
(* extract_first_json                                                      *)
(***************************************************************************)
\* the tail of the match of [^\{\[]* : the text from the next opening bracket on
RECURSIVE SkipToOpener(_)
SkipToOpener(s) ==
    IF s = << >> \/ Head(s) \in Openers THEN s ELSE SkipToOpener(Tail(s))

\* a variant that leaves the prompts in the text
KeepSudoRuns(s) == s

\* re.sub(r'\[sudo\][^\{\[]*', '', payload, flags=re.DOTALL): every leftmost,
\* non-overlapping match of the tag and the greedy run after it is removed
RECURSIVE RemoveSudoRuns(_)
RemoveSudoRuns(s) ==
    IF s = << >> THEN << >>
    ELSE IF StartsWith(s, SudoTag)
         THEN RemoveSudoRuns(SkipToOpener(SubSeq(s, Len(SudoTag) + 1, Len(s))))
         ELSE << Head(s) >> \o RemoveSudoRuns(Tail(s))

\* the test of line 118: the popped opener and the closer are of different types
Mismatch(open_char, char) ==
    \/ open_char = "{" /\ char # "}"
    \/ open_char = "[" /\ char # "]"

\* a variant of the loop that takes every opening bracket as a new start
RECURSIVE BracketScanLastOpener(_, _, _, _)
BracketScanLastOpener(p, i, stack, start_idx) ==
    IF i > Len(p) THEN None
    ELSE LET char == p[i] IN
         IF char \in Openers
         THEN BracketScanLastOpener(p, i + 1, Append(stack, char), i)
         ELSE IF char \in Closers
         THEN IF stack = << >>
              THEN BracketScanLastOpener(p, i + 1, stack, start_idx)
              ELSE LET open_char == stack[Len(stack)]
                       popped == SubSeq(stack, 1, Len(stack) - 1)
                   IN  IF Mismatch(open_char, char)
                       THEN BracketScanLastOpener(p, i + 1, popped, start_idx)
                       ELSE IF popped = << >>
                            THEN Some(SubSeq(p, start_idx, i))
                            ELSE BracketScanLastOpener(p, i + 1, popped, start_idx)
         ELSE BracketScanLastOpener(p, i + 1, stack, start_idx)

\* a variant of the loop that gives up at a closing bracket met while no
\* bracket is open
RECURSIVE BracketScanStrayCloserEnds(_, _, _, _)
BracketScanStrayCloserEnds(p, i, stack, start_idx) ==
    IF i > Len(p) THEN None
    ELSE LET char == p[i] IN
         IF char \in Openers
         THEN BracketScanStrayCloserEnds(p, i + 1, Append(stack, char),
                                         IF stack = << >> THEN i ELSE start_idx)
         ELSE IF char \in Closers
         THEN IF stack = << >>
              THEN None
              ELSE LET open_char == stack[Len(stack)]
                       popped == SubSeq(stack, 1, Len(stack) - 1)
                   IN  IF Mismatch(open_char, char)
                       THEN BracketScanStrayCloserEnds(p, i + 1, popped, start_idx)
                       ELSE IF popped = << >>
                            THEN Some(SubSeq(p, start_idx, i))
                            ELSE BracketScanStrayCloserEnds(p, i + 1, popped, start_idx)
         ELSE BracketScanStrayCloserEnds(p, i + 1, stack, start_idx)

\* the for loop of lines 109-121 from position i on (1-based), with the stack
\* and start_idx of the code; the value is the optional text returned
RECURSIVE BracketScan(_, _, _, _)
BracketScan(p, i, stack, start_idx) ==
    IF i > Len(p) THEN None
    ELSE LET char == p[i] IN
         IF char \in Openers
         THEN BracketScan(p, i + 1, Append(stack, char),
                          IF stack = << >> THEN i ELSE start_idx)
         ELSE IF char \in Closers
         THEN IF stack = << >>
              THEN BracketScan(p, i + 1, stack, start_idx)
              ELSE LET open_char == stack[Len(stack)]
                       popped == SubSeq(stack, 1, Len(stack) - 1)
                   IN  IF Mismatch(open_char, char)
                       THEN BracketScan(p, i + 1, popped, start_idx)
                       ELSE IF popped = << >>
                            THEN Some(SubSeq(p, start_idx, i))
                            ELSE BracketScan(p, i + 1, popped, start_idx)
         ELSE BracketScan(p, i + 1, stack, start_idx)

\* a variant that falls back to the cleaned text when the scan finds nothing
extract_first_json_or_text(text) ==
    LET found == BracketScan(RemoveSudoRuns(text), 1, << >>, 0)
    IN  IF found = None THEN Some(RemoveSudoRuns(text)) ELSE found

extract_first_json(text) == BracketScan(RemoveSudoRuns(text), 1, << >>, 0)

(***************************************************************************)
(* get_service_status                                                      *)
(***************************************************************************)
ActiveStateKey == << "A", "c", "t", "i", "v", "e", "S", "t", "a", "t", "e" >>
SubStateKey == << "S", "u", "b", "S", "t", "a", "t", "e" >>
active == << "a", "c", "t", "i", "v", "e" >>
\* named runningText: running is the local variable of resolve_unknown_error
runningText == << "r", "u", "n", "n", "i", "n", "g" >>
SubStateRunning == SubStateKey \o << "=" >> \o runningText

\* the position of the first sep in s at or after i, 0 if there is none
RECURSIVE Find(_, _, _)
Find(s, sep, i) ==
    IF i > Len(s) THEN 0 ELSE IF s[i] = sep THEN i ELSE Find(s, sep, i + 1)

\* str.split(sep) for a separator of one character: every piece, empty ones too
RECURSIVE Split(_, _)
Split(s, sep) ==
    LET k == Find(s, sep, 1)
    IN  IF k = 0 THEN << s >>
        ELSE << SubSeq(s, 1, k - 1) >> \o Split(SubSeq(s, k + 1, Len(s)), sep)

\* a variant that cuts at the last separator (str.rsplit(sep, 1))
RECURSIVE FindLast(_, _, _)
FindLast(s, sep, i) ==
    IF i < 1 THEN 0 ELSE IF s[i] = sep THEN i ELSE FindLast(s, sep, i - 1)

SplitLast(s, sep) ==
    LET k == FindLast(s, sep, Len(s))
    IN  IF k = 0 THEN << s >>
        ELSE << SubSeq(s, 1, k - 1), SubSeq(s, k + 1, Len(s)) >>

\* str.split(sep, 1): at most one cut, at the first separator
SplitOnce(s, sep) ==
    LET k == Find(s, sep, 1)
    IN  IF k = 0 THEN << s >>
        ELSE << SubSeq(s, 1, k - 1), SubSeq(s, k + 1, Len(s)) >>

\* formatted_data[key] = value
DictSet(d, key, value) ==
    [k \in DOMAIN d \cup { key } |-> IF k = key THEN value ELSE d[k]]

\* the for loop of lines 336-339 over the entries not yet visited
RECURSIVE FormatData(_, _)
FormatData(data, formatted_data) ==
    IF data = << >> THEN formatted_data
    ELSE LET key_value == SplitOnce(Head(data), "=")
         IN  FormatData(Tail(data),
                        IF Len(key_value) = 2
                        THEN DictSet(formatted_data, key_value[1], key_value[2])
                        ELSE formatted_data)

\* the empty dict
EmptyDict == [k \in {} |-> << >>]

\* get_service_status on the text that manage_service("show") returned; none
\* stands for the KeyError of formatted_data["ActiveState"]
get_service_status(shown) ==
    LET formatted_data == FormatData(Split(shown, "\n"), EmptyDict)
    IN  IF ActiveStateKey \in DOMAIN formatted_data
        THEN Some(formatted_data[ActiveStateKey])
        ELSE None

(***************************************************************************)
(* JSON, as json.loads accepts it, over the characters of the model: a     *)
(* value is an object { v* }, an array [ v* ], a string "..." of any       *)
(* characters but the quote, or the scalar a (keys, colons and commas are  *)
(* left out: the bracket scan treats them like any character that is no    *)
(* bracket).  Each operator gives the position just after the construct    *)
(* that starts at i, or 0 when there is none.                              *)
(***************************************************************************)
RECURSIVE JsonValueEnd(_, _), JsonMembersEnd(_, _, _), JsonStringEnd(_, _)
JsonStringEnd(s, i) ==
    IF i > Len(s) THEN 0 ELSE IF s[i] = "\"" THEN i + 1 ELSE JsonStringEnd(s, i + 1)

JsonValueEnd(s, i) ==
    IF i > Len(s) THEN 0
    ELSE IF s[i] = "{" THEN JsonMembersEnd(s, i + 1, "}")
    ELSE IF s[i] = "[" THEN JsonMembersEnd(s, i + 1, "]")
    ELSE IF s[i] = "\"" THEN JsonStringEnd(s, i + 1)
    ELSE IF s[i] = "a" THEN i + 1
    ELSE 0

JsonMembersEnd(s, i, close) ==
    IF i > Len(s) THEN 0
    ELSE IF s[i] = close THEN i + 1
    ELSE LET j == JsonValueEnd(s, i)
         IN  IF j = 0 THEN 0 ELSE JsonMembersEnd(s, j, close)

(***************************************************************************)
(* The environment: the file system, the settings file, the credential     *)
(* prompt and what the spawned processes answer.                           *)
(***************************************************************************)
DEBUG_MODE == FALSE

\* f"/home/{user}" and f"/home/{user}/.zerotier-one" for the user "u"
Home == "/home/u"
ZtDirPath == "/home/u/.zerotier-one"

\* os.path.exists: the home directory is there (the log directory was made
\* under it when the module was loaded), the data directory may be missing
PathExists(p) == IF p = ZtDirPath THEN ztDir ELSE p = Home

\* the exit codes the backend tool may end with: the four check_for_errors
\* tells apart (0, 1, 2, 127) and one more, 5
CliRetCodes == { 0, 1, 2, 5, 127 }

\* the exit codes another command may end with: success, a failure, and 5,
\* which reinstall_backend looks for
RetCodes == { 0, 1, 5 }

\* what ask_sudo_password returns: None (the window was closed), "", or "pw"
Passwords == { None, Some(<< >>), Some(<< "p", "w" >>) }

\* the settings file: missing, not JSON, or a JSON object in which the key
\* service_enabled is absent, true or false
SettingsFiles ==
    { [file |-> "missing", service_enabled |-> None],
      [file |-> "unparsable", service_enabled |-> None],
      [file |-> "json", service_enabled |-> None],
      [file |-> "json", service_enabled |-> Some(TRUE)],
      [file |-> "json", service_enabled |-> Some(FALSE)] }

\* load_settings_no_class: the dict read, seen through its key service_enabled
\* (none: the key is absent, as in the {} of line 88)
load_settings_no_class ==
    IF settings.file = "json" THEN settings.service_enabled ELSE None

\* settings.get("service_enabled", default)
GetServiceEnabled(d, default) == IF d = None THEN default ELSE d[1]

\* a variant that takes the service for enabled whatever the file says
ServiceEnabledAlways == TRUE

\* line 1542 (and 1618, 260): whether the service counts as enabled
ServiceEnabled == GetServiceEnabled(load_settings_no_class, TRUE)

inactive == << "i", "n" >> \o active
failed == << "f", "a", "i", "l", "e", "d" >>
activating == << "a", "c", "t", "i", "v", "a", "t", "i", "n", "g" >>
SteamOS == << "S", "t", "e", "a", "m", "O", "S" >>
Arch == << "A", "r", "c", "h" >>
\* the JSON lists a tool may print: the empty one, and one with one entry,
\* whose {} stands for an object with the fields the program reads
EmptyList == << "[", "]" >>
OneEntryList == << "[", "{", "}", "]" >>

\* the dumps systemctl show may print
ShownActive == ActiveStateKey \o << "=" >> \o active \o << "\n" >> \o SubStateRunning
ShownInactive == ActiveStateKey \o << "=" >> \o inactive
ShowTexts == { ShownActive, ShownInactive, << >> }

IsActiveTexts == { t \o << "\n" >> : t \in { active, inactive, failed, activating } }

Words(command) == { command[i] : i \in 1..Len(command) }

\* what a command may print on its output stream
PlainTexts(command) ==
    IF "is-active" \in Words(command) THEN IsActiveTexts
    ELSE IF "show" \in Words(command) THEN ShowTexts
    ELSE IF "lsb_release" \in Words(command) THEN { SteamOS, Arch }
    ELSE IF "ip" \in Words(command) \/ "-j" \in Words(command)
         THEN { << >>, EmptyList, OneEntryList }
    ELSE { << >> }

\* what Popen captures: under sudo -S the prompt banner may come first (the
\* error stream is merged into the output, stderr=STDOUT)
Captured(command, merged_sudo) ==
    PlainTexts(command) \cup
        (IF merged_sudo THEN { Banner \o t : t \in PlainTexts(command) } ELSE {})

(***************************************************************************)
(* run_command and run_zerotier_cli.  Each gives the record of the call:   *)
(* what was handed to Popen (argv, cwd, stdin, spawns: the number of Popen *)
(* calls), and how the call ended (raised, returncode and output of the    *)
(* CalledProcessError, result of a normal return), with cwd_exists telling *)
(* whether the working directory was there and error the exit code and the *)
(* output the CalledProcessError carries.  rc and out are the              *)
(* exit code and the captured output the spawned process answers with.     *)
(***************************************************************************)
NoCall ==
    [fn |-> "", command |-> << >>, cwd |-> "", use_sudo |-> FALSE, argv |-> << >>,
     cwd_exists |-> TRUE, spawns |-> 0, stdin |-> None, raised |-> "none", returncode |-> 0,
     output |-> << >>, error |-> None, result |-> None]

\* a variant that takes the prompt banner out of the output of the error
ErrorOutputStripped(stdout) == RemoveAll(stdout, Banner)

\* lines 1493, 1551: CalledProcessError(process.returncode, command, output=stdout)
ErrorOutput(stdout) == stdout

\* a variant whose error carries 1 whatever the process exited with
CalledProcessErrorCode1(returncode, stdout) ==
    Some([returncode |-> 1, output |-> ErrorOutput(stdout)])

CalledProcessError(returncode, stdout) ==
    Some([returncode |-> returncode, output |-> ErrorOutput(stdout)])

\* a variant that puts the privilege prefix outside the sandbox hop
AddPrefixesSudoOutermost(command, use_sudo, debug) ==
    LET hopped == IF ~debug THEN << "flatpak-spawn", "--host" >> \o command ELSE command
    IN  IF use_sudo THEN << "sudo", "-S" >> \o hopped ELSE hopped

\* lines 1468-1472 (and 1536-1539): the two prefixes, as a function of the
\* debug flag
AddPrefixes(command, use_sudo, debug) ==
    LET sudoed == IF use_sudo THEN << "sudo", "-S" >> \o command ELSE command
    IN  IF ~debug THEN << "flatpak-spawn", "--host" >> \o sudoed ELSE sudoed

\* lines 1468-1472: the prefixes put before the caller's argv
WithPrefixes(command, use_sudo) == AddPrefixes(command, use_sudo, DEBUG_MODE)

\* a variant that writes the credential whether the call is privileged or not
CommunicateInputAlways(use_sudo) ==
    Some((IF SUDO_PASSWORD = None THEN << >> ELSE SUDO_PASSWORD[1]) \o << "\n" >>)

\* lines 1477-1481 and 1548: what communicate() writes to the input stream
\* before closing it (none: nothing)
CommunicateInput(use_sudo) ==
    IF use_sudo THEN Some(SUDO_PASSWORD[1] \o << "\n" >>) ELSE None

\* a variant of the directory test of line 1462 that lets every path pass
PathExistsAlways(p) == TRUE

\* line 1462: os.path.exists(cdwPath)
WorkingDirectoryExists(p) == PathExists(p)

run_command(command, use_sudo, cdw, rc, out) ==
    LET cdwPath == IF cdw = None THEN ZtDirPath ELSE cdw[1]
        entered == [NoCall EXCEPT !.fn = "run_command", !.command = command,
                                  !.cwd = cdwPath, !.use_sudo = use_sudo,
                                  !.cwd_exists = PathExists(cdwPath)]
        spawned == [entered EXCEPT !.argv = WithPrefixes(command, use_sudo),
                                   !.spawns = 1]
    IN  IF ~WorkingDirectoryExists(cdwPath)
        THEN [entered EXCEPT !.raised = "FileNotFoundError"]
        ELSE IF ~PathExists(cdwPath)
        THEN \* Popen(cwd=cdwPath) itself fails on a missing directory
             [spawned EXCEPT !.raised = "FileNotFoundError"]
        ELSE IF use_sudo /\ SUDO_PASSWORD = None
        THEN \* SUDO_PASSWORD + '\n' with SUDO_PASSWORD None
             [spawned EXCEPT !.raised = "TypeError"]
        ELSE LET ended ==
                    [spawned EXCEPT
                        !.stdin = CommunicateInput(use_sudo),
                        !.returncode = rc,
                        !.output = out]
             IN  IF rc # 0
                 THEN [ended EXCEPT !.raised = "CalledProcessError",
                                    !.error = CalledProcessError(rc, out)]
                 ELSE [ended EXCEPT !.result = Some(RemoveAll(out, Banner))]

\* line 1536: the argv of the backend tool
CliCommand(args) == << "./zerotier-cli", "-D/home/u/.zerotier-one" >> \o args

run_zerotier_cli(args, stderr_to_stdout, rc, out) ==
    LET entered == [NoCall EXCEPT !.fn = "run_zerotier_cli", !.command = CliCommand(args),
                                  !.cwd = ZtDirPath, !.use_sudo = TRUE,
                                  !.cwd_exists = PathExists(ZtDirPath)]
        spawned == [entered EXCEPT !.argv = WithPrefixes(CliCommand(args), TRUE),
                                   !.spawns = 1]
    IN  IF ~ServiceEnabled
        THEN [entered EXCEPT !.result = Some(<< >>)]
        ELSE IF ~PathExists(ZtDirPath)
        THEN \* Popen(cwd=...) fails on the missing directory
             [spawned EXCEPT !.raised = "FileNotFoundError"]
        ELSE IF SUDO_PASSWORD = None
        THEN [spawned EXCEPT !.raised = "TypeError"]
        ELSE LET ended ==
                    [spawned EXCEPT
                        !.stdin = CommunicateInput(TRUE),
                        !.returncode = rc,
                        !.output = out]
             IN  IF rc # 0
                 THEN [ended EXCEPT !.raised = "CalledProcessError",
                                    !.error = CalledProcessError(rc, out)]
                 ELSE [ended EXCEPT !.result = Some(out)]

\* a variant that loads the missing text as the empty list
json_loads_none_as_empty(text) ==
    IF text = None THEN "ok"
    ELSE IF JsonValueEnd(text[1], 1) = Len(text[1]) + 1 THEN "ok"
    ELSE "JSONDecodeError"

\* json.loads on the text extract_first_json gave: "TypeError" for None,
\* "JSONDecodeError" for a text that is no JSON value, "ok" otherwise
json_loads(text) ==
    IF text = None THEN "TypeError"
    ELSE IF JsonValueEnd(text[1], 1) = Len(text[1]) + 1 THEN "ok"
    ELSE "JSONDecodeError"

\* the value json.loads returned for a text it loaded (a missing text loads
\* under the variant only, as the empty list)
LoadedValue(text) == IF text = None THEN EmptyList ELSE text[1]

(***************************************************************************)
(* The program.  pc is the place the single thread of control stands at,   *)
(* callStack the return addresses of the calls in progress.  mode names the    *)
(* stage of the startup diagnosis: Startup (the credential loop of         *)
(* __main__), Probing (the loop of check_for_errors), StartingService      *)
(* (resolve_unknown_error), Reinstalling (reinstall_backend), Resolved (a  *)
(* probe succeeded), Disabled (check_for_errors returned at once),         *)
(* Returned (check_for_errors left its loop without a successful probe),   *)
(* Fatal (exit(1) of reinstall_backend), Exited (exit(1) of __main__) and  *)
(* Crashed (an exception nothing catches).  steps records, during the      *)
(* diagnosis, the probes, the service actions, the is-active query and the *)
(* install; probes records how each probe ended.                           *)
(***************************************************************************)
Init ==
    /\ pc = "main_ask"
    /\ callStack = << >>
    /\ SUDO_PASSWORD = None
    /\ settings \in SettingsFiles
    /\ ztDir \in BOOLEAN
    /\ mode = "Startup"
    /\ steps = << >>
    /\ probes = << >>
    /\ reinstalls = 0
    /\ msAction = ""
    /\ msLog = << >>
    /\ msResult = None
    /\ running = << >>
    /\ call = NoCall
    /\ serviceLabel = None
    /\ payload = << >>
    /\ extracted = None
    /\ dump = << >>
    /\ status = None
    /\ phase = "program"

\* the program before __main__ has run, where a function is studied alone
ProgramNotStarted ==
    /\ pc = "main_ask"
    /\ callStack = << >>
    /\ SUDO_PASSWORD = None
    /\ settings = [file |-> "missing", service_enabled |-> None]
    /\ ztDir = TRUE
    /\ mode = "Startup"
    /\ steps = << >>
    /\ probes = << >>
    /\ reinstalls = 0
    /\ msAction = ""
    /\ msLog = << >>
    /\ msResult = None
    /\ running = << >>
    /\ call = NoCall
    /\ serviceLabel = None

varsPure == << payload, extracted, dump, status, phase >>

Push(ret) == << ret >> \o callStack

\* return to the caller
Return == pc' = Head(callStack) /\ callStack' = Tail(callStack)

\* the steps of the diagnosis are recorded while it runs
Diagnosing == mode \in { "Probing", "StartingService", "Reinstalling" }
LogStep(name) == IF Diagnosing THEN Append(steps, name) ELSE steps

\* an exception that reaches the top of __main__ ends the program
Crash == pc' = "crashed" /\ callStack' = << >> /\ mode' = "Crashed"

\* the handlers of the window run under mainloop, which reports what they
\* raise and goes on
InCallback == callStack # << >> /\ callStack[Len(callStack)] = "gui"
Uncaught ==
    IF InCallback
    THEN pc' = "gui" /\ callStack' = << >> /\ mode' = mode
    ELSE Crash

\* manage_service(action)
CallManageService(action, ret) ==
    /\ pc' = "ms_user"
    /\ callStack' = Push(ret)
    /\ msAction' = action
    /\ msLog' = << >>
    /\ msResult' = None
    /\ steps' = LogStep(action)

\* reinstall_backend()
CallReinstall(ret) ==
    /\ reinstalls < MaxReinstalls
    /\ reinstalls' = reinstalls + 1
    /\ pc' = "rb_stop"
    /\ callStack' = Push(ret)
    /\ mode' = "Reinstalling"

(* __main__ ****************************************************************)
\* lines 1731, 1743: SUDO_PASSWORD = ask_sudo_password()
AskSudoPassword ==
    /\ pc = "main_ask"
    /\ \E p \in Passwords : SUDO_PASSWORD' = p
    /\ pc' = "main_test"
    /\ call' = NoCall
    /\ UNCHANGED << callStack, settings, ztDir, mode, steps, probes, reinstalls, msAction,
                    msLog, msResult, running, serviceLabel, varsPure >>

\* a variant that tests the credential once and goes on when the test fails
TestCredentialOnce ==
    /\ pc = "main_test"
    /\ \E rc \in RetCodes, out \in Captured(<< "true" >>, TRUE) :
         LET r == run_command(<< "true" >>, TRUE, None, rc, out)
         IN  /\ call' = r
             /\ \/ /\ r.raised \in { "none", "CalledProcessError" }
                   /\ pc' = "dup_check"
                   /\ UNCHANGED << callStack, mode, reinstalls >>
                \/ /\ r.raised = "FileNotFoundError"
                   /\ CallReinstall("main_test")
                \/ /\ r.raised = "TypeError"
                   /\ pc' = "exited" /\ callStack' = << >> /\ mode' = "Exited"
                   /\ UNCHANGED reinstalls
    /\ UNCHANGED << SUDO_PASSWORD, settings, ztDir, steps, probes, msAction,
                    msLog, msResult, running, serviceLabel, varsPure >>

\* lines 1736-1760: run_command(["true"]) and its handlers
TestCredential ==
    /\ pc = "main_test"
    /\ \E rc \in RetCodes, out \in Captured(<< "true" >>, TRUE) :
         LET r == run_command(<< "true" >>, TRUE, None, rc, out)
         IN  /\ call' = r
             /\ \/ /\ r.raised = "none"
                   /\ pc' = "dup_check"
                   /\ UNCHANGED << callStack, mode, reinstalls >>
                \/ /\ r.raised = "CalledProcessError"
                   /\ pc' = "main_ask"
                   /\ UNCHANGED << callStack, mode, reinstalls >>
                \/ /\ r.raised = "FileNotFoundError"
                   /\ CallReinstall("main_test")
                \/ /\ r.raised = "TypeError"
                   /\ pc' = "exited" /\ callStack' = << >> /\ mode' = "Exited"
                   /\ UNCHANGED reinstalls
    /\ UNCHANGED << SUDO_PASSWORD, settings, ztDir, steps, probes, msAction,
                    msLog, msResult, running, serviceLabel, varsPure >>

(* disable_duplicate_zerotier **********************************************)
DupCheck ==
    /\ pc = "dup_check"
    /\ \E rc \in RetCodes,
          out \in Captured(<< "systemctl", "is-active", "zerotier-one" >>, TRUE) :
         LET r == run_command(<< "systemctl", "is-active", "zerotier-one" >>,
                              TRUE, None, rc, out)
         IN  /\ call' = r
             /\ \/ /\ r.raised # "none"
                   /\ pc' = "cfe_enter"
                \/ /\ r.raised = "none"
                   /\ ~Contains(r.result[1], active)
                   /\ pc' = "cfe_enter"
                \/ /\ r.raised = "none"
                   /\ Contains(r.result[1], active)
                   /\ \E disableResponse \in BOOLEAN :
                        pc' = IF disableResponse THEN "dup_disable" ELSE "cfe_enter"
    /\ UNCHANGED << callStack, SUDO_PASSWORD, settings, ztDir, mode, steps, probes,
                    reinstalls, msAction, msLog, msResult, running, serviceLabel, varsPure >>

DupDisable ==
    /\ pc = "dup_disable"
    /\ \E rc \in RetCodes,
          out \in Captured(<< "systemctl", "disable", "zerotier-one" >>, TRUE) :
         LET r == run_command(<< "systemctl", "disable", "zerotier-one" >>,
                              TRUE, None, rc, out)
         IN  /\ call' = r
             /\ pc' = IF r.raised = "none" THEN "dup_stop" ELSE "cfe_enter"
    /\ UNCHANGED << callStack, SUDO_PASSWORD, settings, ztDir, mode, steps, probes,
                    reinstalls, msAction, msLog, msResult, running, serviceLabel, varsPure >>

DupStop ==
    /\ pc = "dup_stop"
    /\ \E rc \in RetCodes,
          out \in Captured(<< "systemctl", "stop", "zerotier-one" >>, TRUE) :
         call' = run_command(<< "systemctl", "stop", "zerotier-one" >>,
                             TRUE, None, rc, out)
    /\ pc' = "cfe_enter"
    /\ UNCHANGED << callStack, SUDO_PASSWORD, settings, ztDir, mode, steps, probes,
                    reinstalls, msAction, msLog, msResult, running, serviceLabel, varsPure >>

(* check_for_errors ********************************************************)
\* lines 1616-1621
CheckForErrorsEnter ==
    /\ pc = "cfe_enter"
    /\ steps' = << >>
    /\ probes' = << >>
    /\ IF ~GetServiceEnabled(load_settings_no_class, TRUE)
       THEN pc' = "mw_init" /\ mode' = "Disabled"
       ELSE pc' = "cfe_probe" /\ mode' = "Probing"
    /\ call' = NoCall
    /\ UNCHANGED << callStack, SUDO_PASSWORD, settings, ztDir, reinstalls, msAction,
                    msLog, msResult, running, serviceLabel,
                    varsPure >>

\* lines 1632-1655: the branches of the handler a return code goes through,
\* in the order of the tests (the branch for 2 ends with continue)
BranchesTaken(returncode) ==
    IF returncode = 2 THEN { "no_authorization" }
    ELSE (IF returncode = 1 THEN { "service_not_running" } ELSE {})
         \cup (IF returncode = 127 THEN { "not_installed" } ELSE {})

\* the classes of a non-zero return code: the branches, or none of them
ErrorClasses(returncode) ==
    IF BranchesTaken(returncode) = {} THEN { "unknown" } ELSE BranchesTaken(returncode)

\* how a probe ended, as the handlers see it
ProbeRecord(r) == [raised |-> r.raised, returncode |-> r.returncode]

\* a variant that does not tell exit code 127 from the other failures
ProbeOutcomeNo127(r) ==
    IF r.raised = "none" THEN "break"
    ELSE IF r.raised = "FileNotFoundError" THEN "reinstall"
    ELSE IF r.raised = "CalledProcessError"
         THEN IF r.returncode = 2 THEN "reinstall"
              ELSE IF r.returncode = 1 THEN "resolve"
              ELSE "break"
    ELSE "propagate"

\* a variant with a retry cap: after one reinstall a probe that would ask
\* for another leaves the loop
ProbeOutcomeCapped(r) ==
    LET again == IF reinstalls >= 1 THEN "break" ELSE "reinstall"
    IN  IF r.raised = "none" THEN "break"
        ELSE IF r.raised = "FileNotFoundError" THEN again
        ELSE IF r.raised = "CalledProcessError"
             THEN IF r.returncode = 2 THEN again
                  ELSE IF r.returncode = 1 THEN "resolve"
                  ELSE IF r.returncode = 127 THEN again
                  ELSE "break"
        ELSE "propagate"

\* lines 1625-1665: what check_for_errors does after the probe
ProbeOutcome(r) ==
    IF r.raised = "none" THEN "break"
    ELSE IF r.raised = "FileNotFoundError" THEN "reinstall"
    ELSE IF r.raised = "CalledProcessError"
         THEN IF r.returncode = 2 THEN "reinstall"
              ELSE IF r.returncode = 1 THEN "resolve"
              ELSE IF r.returncode = 127 THEN "reinstall"
              ELSE "break"
    ELSE "propagate"

Probe ==
    /\ pc = "cfe_probe"
    /\ \E rc \in CliRetCodes, out \in Captured(CliCommand(<< "listnetworks" >>), FALSE) :
         LET r == run_zerotier_cli(<< "listnetworks" >>, FALSE, rc, out)
         IN  /\ call' = r
             /\ steps' = LogStep("probe")
             /\ probes' = Append(probes, ProbeRecord(r))
             /\ \/ /\ ProbeOutcome(r) = "reinstall"
                   /\ CallReinstall("cfe_probe")
                \/ /\ ProbeOutcome(r) = "resolve"
                   /\ pc' = "rue_start"
                   /\ callStack' = Push("cfe_after_resolve")
                   /\ mode' = "StartingService"
                   /\ UNCHANGED reinstalls
                \/ /\ ProbeOutcome(r) = "break"
                   /\ pc' = "mw_init"
                   /\ mode' = IF r.raised = "none" THEN "Resolved" ELSE "Returned"
                   /\ UNCHANGED << callStack, reinstalls >>
                \/ /\ ProbeOutcome(r) = "propagate"
                   /\ Crash
                   /\ UNCHANGED reinstalls
    /\ UNCHANGED << SUDO_PASSWORD, settings, ztDir, msAction, msLog, msResult,
                    running, serviceLabel, varsPure >>

\* lines 1644-1655: back from resolve_unknown_error, the code is 1, not 127
CheckForErrorsAfterResolve ==
    /\ pc = "cfe_after_resolve"
    /\ pc' = "mw_init"
    /\ mode' = IF mode = "Resolved" THEN "Resolved" ELSE "Returned"
    /\ call' = NoCall
    /\ UNCHANGED << callStack, SUDO_PASSWORD, settings, ztDir, steps, probes, reinstalls,
                    msAction, msLog, msResult, running, serviceLabel, varsPure >>

(* resolve_unknown_error ***************************************************)
\* line 1677
ResolveStart ==
    /\ pc = "rue_start"
    /\ CallManageService("start", "rue_isactive")
    /\ call' = NoCall
    /\ UNCHANGED << SUDO_PASSWORD, settings, ztDir, mode, probes, reinstalls,
                    running, serviceLabel, varsPure >>

\* a variant that catches the failure of the query and takes the output of
\* the error for the state
ResolveIsActiveCaught ==
    /\ pc = "rue_isactive"
    /\ steps' = LogStep("is-active")
    /\ \E rc \in RetCodes,
          out \in Captured(<< "systemctl", "--user", "is-active", "zerotier-one" >>, FALSE) :
         LET r == run_command(<< "systemctl", "--user", "is-active", "zerotier-one" >>,
                              FALSE, Some(Home), rc, out)
         IN  /\ call' = r
             /\ \/ /\ r.raised = "none"
                   /\ running' = Strip(r.result[1])
                   /\ pc' = "rue_logs"
                   /\ UNCHANGED << callStack, mode >>
                \/ /\ r.raised = "CalledProcessError"
                   /\ running' = Strip(r.output)
                   /\ pc' = "rue_logs"
                   /\ UNCHANGED << callStack, mode >>
                \/ /\ r.raised \notin { "none", "CalledProcessError" }
                   /\ Uncaught
                   /\ UNCHANGED running
    /\ UNCHANGED << SUDO_PASSWORD, settings, ztDir, probes, reinstalls, msAction,
                    msLog, msResult, serviceLabel, varsPure >>

\* lines 1681-1682
ResolveIsActive ==
    /\ pc = "rue_isactive"
    /\ steps' = LogStep("is-active")
    /\ \E rc \in RetCodes,
          out \in Captured(<< "systemctl", "--user", "is-active", "zerotier-one" >>, FALSE) :
         LET r == run_command(<< "systemctl", "--user", "is-active", "zerotier-one" >>,
                              FALSE, Some(Home), rc, out)
         IN  /\ call' = r
             /\ \/ /\ r.raised = "none"
                   /\ running' = Strip(r.result[1])
                   /\ pc' = "rue_logs"
                   /\ UNCHANGED << callStack, mode >>
                \/ /\ r.raised # "none"
                   /\ Uncaught
                   /\ UNCHANGED running
    /\ UNCHANGED << SUDO_PASSWORD, settings, ztDir, probes, reinstalls, msAction,
                    msLog, msResult, serviceLabel, varsPure >>

\* line 1691
StartFailed(state) == Contains(state, inactive) \/ Contains(state, failed)

\* lines 1684-1698
ResolveLogs ==
    /\ pc = "rue_logs"
    /\ \E rc \in RetCodes,
          out \in Captured(<< "journalctl", "--user", "-u", "zerotier-one", "--no-pager" >>,
                           FALSE) :
         call' = run_command(<< "journalctl", "--user", "-u", "zerotier-one", "--no-pager" >>,
                             FALSE, Some(Home), rc, out)
    /\ \/ /\ StartFailed(running)
          /\ CallReinstall("rue_ret")
       \/ /\ ~StartFailed(running)
          /\ pc' = "rue_probe"
          /\ UNCHANGED << callStack, mode, reinstalls >>
    /\ UNCHANGED << SUDO_PASSWORD, settings, ztDir, steps, probes, msAction, msLog,
                    msResult, running, serviceLabel, varsPure >>

\* a variant that classifies the code of the second probe as the loop of
\* check_for_errors does, and returns on a code it does not know
ResolveProbeClassifies ==
    /\ pc = "rue_probe"
    /\ \E rc \in CliRetCodes, out \in Captured(CliCommand(<< "listnetworks" >>), FALSE) :
         LET r == run_zerotier_cli(<< "listnetworks" >>, FALSE, rc, out)
         IN  /\ call' = r
             /\ steps' = LogStep("probe")
             /\ probes' = Append(probes, ProbeRecord(r))
             /\ \/ /\ r.raised = "none"
                   /\ pc' = "rue_ret"
                   /\ mode' = "Resolved"
                   /\ UNCHANGED << callStack, reinstalls >>
                \/ /\ r.raised = "CalledProcessError"
                   /\ r.returncode \in { 1, 2, 127 }
                   /\ CallReinstall("rue_ret")
                \/ /\ r.raised = "CalledProcessError"
                   /\ r.returncode \notin { 1, 2, 127 }
                   /\ pc' = "rue_ret"
                   /\ UNCHANGED << callStack, mode, reinstalls >>
                \/ /\ r.raised \notin { "none", "CalledProcessError" }
                   /\ Uncaught
                   /\ UNCHANGED reinstalls
    /\ UNCHANGED << SUDO_PASSWORD, settings, ztDir, msAction, msLog, msResult,
                    running, serviceLabel, varsPure >>

\* lines 1700-1723
ResolveProbe ==
    /\ pc = "rue_probe"
    /\ \E rc \in CliRetCodes, out \in Captured(CliCommand(<< "listnetworks" >>), FALSE) :
         LET r == run_zerotier_cli(<< "listnetworks" >>, FALSE, rc, out)
         IN  /\ call' = r
             /\ steps' = LogStep("probe")
             /\ probes' = Append(probes, ProbeRecord(r))
             /\ \/ /\ r.raised = "none"
                   /\ pc' = "rue_ret"
                   /\ mode' = "Resolved"
                   /\ UNCHANGED << callStack, reinstalls >>
                \/ /\ r.raised = "CalledProcessError"
                   /\ CallReinstall("rue_ret")
                \/ /\ r.raised \notin { "none", "CalledProcessError" }
                   /\ Uncaught
                   /\ UNCHANGED reinstalls
    /\ UNCHANGED << SUDO_PASSWORD, settings, ztDir, msAction, msLog, msResult,
                    running, serviceLabel, varsPure >>

ResolveReturn ==
    /\ pc = "rue_ret"
    /\ Return
    /\ running' = << >>
    /\ call' = NoCall
    /\ UNCHANGED << SUDO_PASSWORD, settings, ztDir, mode, steps, probes, reinstalls,
                    msAction, msLog, msResult, serviceLabel, varsPure >>

(* reinstall_backend *******************************************************)
\* line 1403
ReinstallStop ==
    /\ pc = "rb_stop"
    /\ CallManageService("stop", "rb_disable")
    /\ call' = NoCall
    /\ UNCHANGED << SUDO_PASSWORD, settings, ztDir, mode, probes, reinstalls,
                    running, serviceLabel, varsPure >>

\* line 1404
ReinstallDisable ==
    /\ pc = "rb_disable"
    /\ CallManageService("disable", "rb_install")
    /\ call' = NoCall
    /\ UNCHANGED << SUDO_PASSWORD, settings, ztDir, mode, probes, reinstalls,
                    running, serviceLabel, varsPure >>

InstallCommand ==
    << "sh", "-c",
       "curl -s https://raw.githubusercontent.com/aaron777collins/ZeroTier-GUI-Arch/master/download_and_reinstall_backend.sh | bash" >>

\* a variant that goes on to enable and start when the install has failed
ReinstallInstallGoesOn ==
    /\ pc = "rb_install"
    /\ steps' = LogStep("install")
    /\ \E rc \in RetCodes, out \in Captured(InstallCommand, FALSE) :
         LET r == run_command(InstallCommand, FALSE, Some(Home), rc, out)
         IN  /\ call' = r
             /\ ztDir' \in IF r.raised = "none" THEN { ztDir, TRUE } ELSE { ztDir }
             /\ pc' = "rb_enable"
             /\ UNCHANGED << callStack, mode >>
    /\ UNCHANGED << SUDO_PASSWORD, settings, probes, reinstalls, msAction, msLog,
                    msResult, running, serviceLabel, varsPure >>

\* lines 1414-1443: the install; when it succeeds the data directory is there
\* afterwards if the procedure made it
ReinstallInstall ==
    /\ pc = "rb_install"
    /\ steps' = LogStep("install")
    /\ \E rc \in RetCodes, out \in Captured(InstallCommand, FALSE) :
         LET r == run_command(InstallCommand, FALSE, Some(Home), rc, out)
         IN  /\ call' = r
             /\ \/ /\ r.raised = "none"
                   /\ ztDir' \in { ztDir, TRUE }
                   /\ pc' = "rb_enable"
                   /\ UNCHANGED << callStack, mode >>
                \/ /\ r.raised = "CalledProcessError"
                   /\ pc' = "exited" /\ callStack' = << >> /\ mode' = "Fatal"
                   /\ UNCHANGED ztDir
    /\ UNCHANGED << SUDO_PASSWORD, settings, probes, reinstalls, msAction, msLog,
                    msResult, running, serviceLabel, varsPure >>

\* a variant that starts the service where the program enables it
ReinstallEnableAsStart ==
    /\ pc = "rb_enable"
    /\ CallManageService("start", "rb_start")
    /\ call' = NoCall
    /\ UNCHANGED << SUDO_PASSWORD, settings, ztDir, mode, probes, reinstalls,
                    running, serviceLabel, varsPure >>

\* line 1446
ReinstallEnable ==
    /\ pc = "rb_enable"
    /\ CallManageService("enable", "rb_start")
    /\ call' = NoCall
    /\ UNCHANGED << SUDO_PASSWORD, settings, ztDir, mode, probes, reinstalls,
                    running, serviceLabel, varsPure >>

\* line 1447
ReinstallStart ==
    /\ pc = "rb_start"
    /\ CallManageService("start", "rb_ret")
    /\ call' = NoCall
    /\ UNCHANGED << SUDO_PASSWORD, settings, ztDir, mode, probes, reinstalls,
                    running, serviceLabel, varsPure >>

\* line 1448 and the caller's continue: the loop of check_for_errors probes
\* again, the loop of __main__ tests the credential again
ReinstallReturn ==
    /\ pc = "rb_ret"
    /\ Return
    /\ mode' = IF Head(callStack) = "cfe_probe" THEN "Probing"
               ELSE IF Head(callStack) = "main_test" THEN "Startup"
               ELSE mode
    /\ call' = NoCall
    /\ UNCHANGED << SUDO_PASSWORD, settings, ztDir, steps, probes, reinstalls,
                    msAction, msLog, msResult, running, serviceLabel, varsPure >>

(* manage_service **********************************************************)
\* one invocation of systemctl, as manage_service issued it
Invocation(scope, r) ==
    [scope |-> scope, action |-> msAction, use_sudo |-> r.use_sudo,
     argv |-> r.argv, spawns |-> r.spawns, raised |-> r.raised,
     returncode |-> r.returncode]

\* a variant that goes on to the system scope whatever the user scope gave
UserScopeFailedAlways(r) == TRUE

\* line 1381: except CalledProcessError as user_error
UserScopeFailed(r) == r.raised = "CalledProcessError"

\* lines 1377-1381
ManageServiceUser ==
    /\ pc = "ms_user"
    /\ \E rc \in RetCodes,
          out \in Captured(<< "systemctl", "--user", msAction, "zerotier-one" >>, FALSE) :
         LET r == run_command(<< "systemctl", "--user", msAction, "zerotier-one" >>,
                              FALSE, Some(Home), rc, out)
         IN  /\ call' = r
             /\ msLog' = Append(msLog, Invocation("user", r))
             /\ \/ /\ UserScopeFailed(r)
                   /\ pc' = "ms_sys"
                   /\ UNCHANGED msResult
                \/ /\ ~UserScopeFailed(r)
                   /\ msResult' = r.result
                   /\ pc' = "ms_ret"
    /\ UNCHANGED << callStack, SUDO_PASSWORD, settings, ztDir, mode, steps, probes, reinstalls,
                    msAction, running, serviceLabel, varsPure >>

\* a variant whose system-scope failure is raised to the caller: the try
\* block of reinstall_backend would catch it and go to the install
ManageServiceSystemRaises ==
    /\ pc = "ms_sys"
    /\ \E rc \in RetCodes,
          out \in Captured(<< "systemctl", msAction, "zerotier-one" >>, TRUE) :
         LET r == run_command(<< "systemctl", msAction, "zerotier-one" >>,
                              TRUE, Some(Home), rc, out)
         IN  /\ call' = r
             /\ msLog' = Append(msLog, Invocation("system", r))
             /\ \/ /\ r.raised = "none"
                   /\ msResult' = r.result
                   /\ pc' = "ms_ret"
                   /\ UNCHANGED << callStack, mode >>
                \/ /\ r.raised = "CalledProcessError"
                   /\ Head(callStack) \in { "rb_disable", "rb_install" }
                   /\ msResult' = None
                   /\ pc' = "rb_install"
                   /\ callStack' = Tail(callStack)
                   /\ UNCHANGED mode
                \/ /\ r.raised = "CalledProcessError"
                   /\ Head(callStack) \notin { "rb_disable", "rb_install" }
                   /\ Uncaught
                   /\ UNCHANGED msResult
                \/ /\ r.raised \notin { "none", "CalledProcessError" }
                   /\ Uncaught
                   /\ UNCHANGED msResult
    /\ UNCHANGED << SUDO_PASSWORD, settings, ztDir, steps, probes, reinstalls,
                    msAction, running, serviceLabel, varsPure >>

\* lines 1384-1393
ManageServiceSystem ==
    /\ pc = "ms_sys"
    /\ \E rc \in RetCodes,
          out \in Captured(<< "systemctl", msAction, "zerotier-one" >>, TRUE) :
         LET r == run_command(<< "systemctl", msAction, "zerotier-one" >>,
                              TRUE, Some(Home), rc, out)
         IN  /\ call' = r
             /\ msLog' = Append(msLog, Invocation("system", r))
             /\ \/ /\ r.raised = "none"
                   /\ msResult' = r.result
                   /\ pc' = "ms_ret"
                   /\ UNCHANGED << callStack, mode >>
                \/ /\ r.raised = "CalledProcessError"
                   /\ msResult' = None
                   /\ pc' = "ms_ret"
                   /\ UNCHANGED << callStack, mode >>
                \/ /\ r.raised \notin { "none", "CalledProcessError" }
                   /\ Uncaught
                   /\ UNCHANGED msResult
    /\ UNCHANGED << SUDO_PASSWORD, settings, ztDir, steps, probes, reinstalls,
                    msAction, running, serviceLabel, varsPure >>

\* lines 1380, 1387, 1393: manage_service returns; of its callers only
\* get_service_status uses the value
ManageServiceReturn ==
    /\ pc = "ms_ret"
    /\ Return
    /\ msResult' = IF Head(callStack) \in { "usl_set", "ts_state" } THEN msResult ELSE None
    /\ msAction' = ""
    /\ msLog' = << >>
    /\ call' = NoCall
    /\ UNCHANGED << SUDO_PASSWORD, settings, ztDir, mode, steps, probes, reinstalls,
                    running, serviceLabel, varsPure >>

(* MainWindow **************************************************************)
\* MainWindow.load_settings (lines 293-302) reads the same file the same way
load_settings == load_settings_no_class

\* lines 1768-1770 and 260-263; the diagnosis is over and its record dropped
MainWindowInit ==
    /\ pc = "mw_init"
    /\ steps' = << >>
    /\ probes' = << >>
    /\ reinstalls' = 0
    /\ mode' = "Window"
    /\ IF GetServiceEnabled(load_settings, TRUE)
       THEN pc' = "rn_list" /\ callStack' = Push("mw_label")
       ELSE pc' = "mw_label" /\ callStack' = callStack
    /\ call' = NoCall
    /\ UNCHANGED << SUDO_PASSWORD, settings, ztDir,
                    msAction, msLog, msResult, running, serviceLabel, varsPure >>

\* lines 474-477: get_networks_info, "ok" or the exception it raises
NetworksOutcome(r) ==
    IF r.raised # "none" THEN r.raised
    ELSE json_loads(extract_first_json(r.result[1]))

\* line 423: whether range(len(networkData)) has an element
HasNetworks(data) == data # EmptyList

\* lines 418-423: refresh_networks up to its loop
RefreshNetworksList ==
    /\ pc = "rn_list"
    /\ \E rc \in CliRetCodes,
          out \in Captured(CliCommand(<< "-j", "listnetworks" >>), FALSE) :
         LET r == run_zerotier_cli(<< "-j", "listnetworks" >>, FALSE, rc, out)
         IN  /\ call' = r
             /\ \/ /\ NetworksOutcome(r) = "ok"
                   /\ pc' = IF HasNetworks(LoadedValue(extract_first_json(r.result[1])))
                            THEN "rn_iface"
                            ELSE "rn_names"
                   /\ UNCHANGED << callStack, mode >>
                \/ /\ NetworksOutcome(r) # "ok"
                   /\ Uncaught
    /\ UNCHANGED << SUDO_PASSWORD, settings, ztDir, steps, probes, reinstalls,
                    msAction, msLog, msResult, running, serviceLabel, varsPure >>

\* lines 879-890: get_interface_state, "ok" or the exception it raises; an
\* address list without the interface leaves the local unbound
InterfaceOutcome(r) ==
    IF r.raised # "none" THEN r.raised
    ELSE LET text == extract_first_json(Strip(r.result[1]))
         IN  IF json_loads(text) # "ok" THEN json_loads(text)
             ELSE IF LoadedValue(text) = EmptyList THEN "UnboundLocalError"
             ELSE "ok"

\* lines 424-450: the loop of refresh_networks, for the network listed
RefreshNetworksInterface ==
    /\ pc = "rn_iface"
    /\ \E rc \in RetCodes, out \in Captured(<< "ip", "--json", "address" >>, TRUE) :
         LET r == run_command(<< "ip", "--json", "address" >>, TRUE, None, rc, out)
         IN  /\ call' = r
             /\ \/ /\ InterfaceOutcome(r) = "ok"
                   /\ pc' = "rn_names"
                   /\ UNCHANGED << callStack, mode >>
                \/ /\ InterfaceOutcome(r) # "ok"
                   /\ Uncaught
    /\ UNCHANGED << SUDO_PASSWORD, settings, ztDir, steps, probes, reinstalls,
                    msAction, msLog, msResult, running, serviceLabel,
                    varsPure >>

\* lines 451-459: update_network_history_names lists the networks again
RefreshNetworksNames ==
    /\ pc = "rn_names"
    /\ \E rc \in CliRetCodes,
          out \in Captured(CliCommand(<< "-j", "listnetworks" >>), FALSE) :
         LET r == run_zerotier_cli(<< "-j", "listnetworks" >>, FALSE, rc, out)
         IN  /\ call' = r
             /\ \/ /\ NetworksOutcome(r) = "ok"
                   /\ Return
                   /\ UNCHANGED mode
                \/ /\ NetworksOutcome(r) # "ok"
                   /\ Uncaught
    /\ UNCHANGED << SUDO_PASSWORD, settings, ztDir, steps, probes, reinstalls,
                    msAction, msLog, msResult, running, serviceLabel, varsPure >>

\* lines 479-480: get_peers_info, "ok" or the exception it raises
PeersOutcome(r) ==
    IF r.raised # "none" THEN r.raised
    ELSE json_loads(extract_first_json(r.result[1]))

\* lines 395-399: refresh_peers of the peers window, up to its loop; what it
\* raises reaches mainloop
RefreshPeers ==
    /\ pc = "gui"
    /\ \E rc \in CliRetCodes, out \in Captured(CliCommand(<< "-j", "peers" >>), FALSE) :
         call' = run_zerotier_cli(<< "-j", "peers" >>, FALSE, rc, out)
    /\ pc' = "gui"
    /\ UNCHANGED << callStack, SUDO_PASSWORD, settings, ztDir, mode, steps, probes,
                    reinstalls, msAction, msLog, msResult, running, serviceLabel,
                    varsPure >>

\* line 264: self.update_service_label()
MainWindowLabel ==
    /\ pc = "mw_label"
    /\ pc' = "ms_user"
    /\ callStack' = << "usl_set", "mw_done" >> \o callStack
    /\ msAction' = "show"
    /\ msLog' = << >>
    /\ msResult' = None
    /\ call' = NoCall
    /\ UNCHANGED << SUDO_PASSWORD, settings, ztDir, mode, steps, probes, reinstalls,
                    running, serviceLabel, varsPure >>

\* lines 333-345: get_service_status on what manage_service("show") returned
\* and the label made of it; None has no split, a dump without ActiveState
\* is a KeyError
LabelOutcome(shown) ==
    IF shown = None THEN "AttributeError"
    ELSE IF get_service_status(shown[1]) = None THEN "KeyError"
    ELSE "ok"

UpdateServiceLabel ==
    /\ pc = "usl_set"
    /\ \/ /\ LabelOutcome(msResult) = "ok"
          /\ serviceLabel' = get_service_status(msResult[1])
          /\ Return
          /\ UNCHANGED mode
       \/ /\ LabelOutcome(msResult) # "ok"
          /\ Uncaught
          /\ UNCHANGED serviceLabel
    /\ msResult' = None
    /\ call' = NoCall
    /\ UNCHANGED << SUDO_PASSWORD, settings, ztDir, steps, probes, reinstalls,
                    msAction, msLog, running, varsPure >>

(* toggle_service **********************************************************)
\* lines 311-316: the toggle button; get_service_status asks for the dump.
\* What the handler does is recorded in steps, from an empty record
ToggleService ==
    /\ pc = "gui"
    /\ pc' = "ms_user"
    /\ callStack' = << "ts_state", "gui" >>
    /\ msAction' = "show"
    /\ msLog' = << >>
    /\ msResult' = None
    /\ steps' = << >>
    /\ call' = NoCall
    /\ UNCHANGED << SUDO_PASSWORD, settings, ztDir, mode, probes, reinstalls,
                    running, serviceLabel, varsPure >>

\* lines 316-326: the value self.settings['service_enabled'] is given for
\* the state read
ToggledFlag(state) == state # Some(active)

\* lines 316-318 and 324: the state read decides between stop and start
ToggleServiceState ==
    /\ pc = "ts_state"
    /\ \/ /\ LabelOutcome(msResult) = "ok"
          /\ LET flag == ToggledFlag(get_service_status(msResult[1]))
             IN  /\ msAction' = IF flag THEN "start" ELSE "stop"
                 /\ callStack' = Push(IF flag THEN "ts_label_true" ELSE "ts_disable")
                 /\ steps' = << IF flag THEN "read other" ELSE "read active",
                                IF flag THEN "start" ELSE "stop" >>
          /\ pc' = "ms_user"
          /\ msLog' = << >>
          /\ UNCHANGED mode
       \/ /\ LabelOutcome(msResult) # "ok"
          /\ Uncaught
          /\ UNCHANGED << msAction, msLog, steps >>
    /\ msResult' = None
    /\ call' = NoCall
    /\ UNCHANGED << SUDO_PASSWORD, settings, ztDir, probes, reinstalls,
                    running, serviceLabel, varsPure >>

\* line 319
ToggleServiceDisable ==
    /\ pc = "ts_disable"
    /\ pc' = "ms_user"
    /\ callStack' = Push("ts_label_false")
    /\ msAction' = "disable"
    /\ msLog' = << >>
    /\ msResult' = None
    /\ steps' = Append(steps, "disable")
    /\ call' = NoCall
    /\ UNCHANGED << SUDO_PASSWORD, settings, ztDir, mode, probes, reinstalls,
                    running, serviceLabel, varsPure >>

\* lines 321, 326 and 329: the flag is set in self.settings, then
\* update_service_label asks for the dump again
ToggleServiceLabel ==
    /\ pc \in { "ts_label_false", "ts_label_true" }
    /\ pc' = "ms_user"
    /\ callStack' = << "usl_set",
                       IF pc = "ts_label_true" THEN "ts_save_true" ELSE "ts_save_false" >>
                    \o callStack
    /\ msAction' = "show"
    /\ msLog' = << >>
    /\ msResult' = None
    /\ steps' = Append(steps, "show")
    /\ call' = NoCall
    /\ UNCHANGED << SUDO_PASSWORD, settings, ztDir, mode, probes, reinstalls,
                    running, serviceLabel, varsPure >>

\* a variant of the file written that always holds service_enabled true
SavedSettingsEnabled(flag) == [file |-> "json", service_enabled |-> Some(TRUE)]

\* lines 304-309: the file save_settings writes for the flag
SavedSettings(flag) == [file |-> "json", service_enabled |-> Some(flag)]

\* line 331: self.save_settings()
ToggleServiceSave ==
    /\ pc \in { "ts_save_false", "ts_save_true" }
    /\ settings' = SavedSettings(pc = "ts_save_true")
    /\ Return
    /\ steps' = Append(steps, "save")
    /\ call' = NoCall
    /\ UNCHANGED << SUDO_PASSWORD, ztDir, mode, probes, reinstalls, msAction,
                    msLog, msResult, running, serviceLabel, varsPure >>

\* line 1772: mainloop
MainLoop ==
    /\ pc = "mw_done"
    /\ pc' = "gui"
    /\ call' = NoCall
    /\ UNCHANGED << callStack, SUDO_PASSWORD, settings, ztDir, mode, steps, probes,
                    reinstalls, msAction, msLog, msResult, running, serviceLabel, varsPure >>

\* the refresh button: refresh_networks
ClickRefresh ==
    /\ pc = "gui"
    /\ pc' = "rn_list"
    /\ callStack' = << "gui" >>
    /\ call' = NoCall
    /\ UNCHANGED << SUDO_PASSWORD, settings, ztDir, mode, steps, probes, reinstalls,
                    msAction, msLog, msResult, running, serviceLabel, varsPure >>

\* lines 269-277: open_new_window up to its test
OpenNewWindow ==
    /\ pc = "gui"
    /\ \E rc \in RetCodes, out \in Captured(<< "lsb_release", "-d" >>, TRUE) :
         LET r == run_command(<< "lsb_release", "-d" >>, TRUE, None, rc, out)
         IN  /\ call' = r
             /\ pc' = IF r.raised = "none" /\ Contains(Strip(r.result[1]), SteamOS)
                      THEN "onw_steam"
                      ELSE "gui"
    /\ UNCHANGED << callStack, SUDO_PASSWORD, settings, ztDir, mode, steps, probes,
                    reinstalls, msAction, msLog, msResult, running, serviceLabel, varsPure >>

\* line 275
OpenInSteam ==
    /\ pc = "onw_steam"
    /\ \E rc \in RetCodes, out \in Captured(<< "steam", "steam://openurl/" >>, FALSE) :
         call' = run_command(<< "steam", "steam://openurl/" >>, FALSE, None, rc, out)
    /\ pc' = "gui"
    /\ UNCHANGED << callStack, SUDO_PASSWORD, settings, ztDir, mode, steps, probes,
                    reinstalls, msAction, msLog, msResult, running, serviceLabel, varsPure >>

\* lines 1315-1329: change_config of the network window; the handler shows
\* the CalledProcessError and lets anything else reach mainloop
ChangeConfig ==
    /\ pc = "gui"
    /\ \E rc \in CliRetCodes,
          out \in Captured(CliCommand(<< "set", "id", "allowDefault=1" >>), TRUE) :
         call' = run_zerotier_cli(<< "set", "id", "allowDefault=1" >>, TRUE, rc, out)
    /\ pc' = "gui"
    /\ UNCHANGED << callStack, SUDO_PASSWORD, settings, ztDir, mode, steps, probes,
                    reinstalls, msAction, msLog, msResult, running, serviceLabel,
                    varsPure >>

(* the environment *********************************************************)
\* the data directory is removed behind the program's back
RemoveDataDirectory ==
    /\ pc \notin { "exited", "crashed" }
    /\ ztDir
    /\ ztDir' = FALSE
    /\ UNCHANGED << pc, callStack, SUDO_PASSWORD, settings, mode, steps, probes,
                    reinstalls, msAction, msLog, msResult, running, call,
                    serviceLabel, varsPure >>

Next ==
    \/ AskSudoPassword
    \/ TestCredential
    \/ DupCheck
    \/ DupDisable
    \/ DupStop
    \/ CheckForErrorsEnter
    \/ Probe
    \/ CheckForErrorsAfterResolve
    \/ ResolveStart
    \/ ResolveIsActive
    \/ ResolveLogs
    \/ ResolveProbe
    \/ ResolveReturn
    \/ ReinstallStop
    \/ ReinstallDisable
    \/ ReinstallInstall
    \/ ReinstallEnable
    \/ ReinstallStart
    \/ ReinstallReturn
    \/ ManageServiceUser
    \/ ManageServiceSystem
    \/ ManageServiceReturn
    \/ MainWindowInit
    \/ RefreshNetworksList
    \/ RefreshNetworksInterface
    \/ RefreshNetworksNames
    \/ MainWindowLabel
    \/ UpdateServiceLabel
    \/ MainLoop
    \/ ClickRefresh
    \/ OpenNewWindow
    \/ OpenInSteam
    \/ ChangeConfig
    \/ RefreshPeers
    \/ ToggleService
    \/ ToggleServiceState
    \/ ToggleServiceDisable
    \/ ToggleServiceLabel
    \/ ToggleServiceSave
    \/ RemoveDataDirectory

Spec == Init /\ [][Next]_vars

(***************************************************************************)
(* The specification of the output extractor: the argument is any text of  *)
(* at most MaxTokens tokens, a token being the prompt banner or one        *)
(* character; Extract applies the function.                                *)
(***************************************************************************)
Tokens == { Banner, << "{" >>, << "}" >>, << "[" >>, << "]" >>, << "\"" >>, << "a" >> }

\* a list of exactly MaxTokens entries, an entry being a token or nothing
TokenLists == [1..MaxTokens -> Tokens \cup { << >> }]

InitExtract ==
    /\ \E ts \in TokenLists : payload = Flatten(ts)
    /\ extracted = None
    /\ phase = "input"
    /\ dump = << >>
    /\ status = None
    /\ ProgramNotStarted

Extract ==
    /\ phase = "input"
    /\ extracted' = extract_first_json(payload)
    /\ phase' = "done"
    /\ UNCHANGED << payload, varsStatus, varsProgram >>

NextExtract == Extract

SpecExtract == InitExtract /\ [][NextExtract]_vars

(***************************************************************************)
(* The specification of the status parser: the text is a property dump of  *)
(* at most MaxDumpTokens tokens (ActiveState, active, SubState=running,    *)
(* "=" and the line break) in which no property is listed twice, as        *)
(* systemctl show prints it.                                               *)
(***************************************************************************)
DumpTokens == { ActiveStateKey, active, SubStateRunning, << "=" >>, << "\n" >> }

DumpTokenLists == [1..MaxDumpTokens -> DumpTokens \cup { << >> }]

\* the property names of the lines of a dump, in order
PropertyNames(text) ==
    LET lines == Split(text, "\n")
    IN  [i \in { j \in 1..Len(lines) : Find(lines[j], "=", 1) # 0 } |->
            SubSeq(lines[i], 1, Find(lines[i], "=", 1) - 1)]

NoPropertyTwice(text) ==
    LET names == PropertyNames(text)
    IN  \A i, j \in DOMAIN names : names[i] = names[j] => i = j

InitStatus ==
    /\ \E ts \in DumpTokenLists : dump = Flatten(ts)
    /\ NoPropertyTwice(dump)
    /\ status = None
    /\ phase = "input"
    /\ payload = << >>
    /\ extracted = None
    /\ ProgramNotStarted

GetServiceStatus ==
    /\ phase = "input"
    /\ status' = get_service_status(dump)
    /\ phase' = "done"
    /\ UNCHANGED << dump, varsExtract, varsProgram >>

NextStatus == GetServiceStatus

SpecStatus == InitStatus /\ [][NextStatus]_vars


(***************************************************************************)
(* Properties of the output extractor.                                     *)
(***************************************************************************)
NoBrackets(s) == \A i \in 1..Len(s) : s[i] \notin Brackets

\* the position of the first bracket character of s, 0 if it has none
RECURSIVE FirstBracket(_, _)
FirstBracket(s, i) ==
    IF i > Len(s) THEN 0 ELSE IF s[i] \in Brackets THEN i ELSE FirstBracket(s, i + 1)

IsJsonObject(s) == s # << >> /\ s[1] = "{" /\ JsonValueEnd(s, 1) = Len(s) + 1

\* what follows the banner at the head of s
AfterBanner(s) == SubSeq(s, Len(Banner) + 1, Len(s))

\* the text from the first bracket character of s on
FromFirstBracket(s) == SubSeq(s, FirstBracket(s, 1), Len(s))

\* s is the banner, then noise without brackets, then one JSON object
BannerNoiseObject(s) ==
    /\ StartsWith(s, Banner)
    /\ FirstBracket(AfterBanner(s), 1) # 0
    /\ IsJsonObject(FromFirstBracket(AfterBanner(s)))

\* C1: for a text made of the sudo banner, noise without brackets and one
\* balanced JSON object (its strings may hold bracket characters),
\* extract_first_json returns exactly that object.
C1_BannerThenObject ==
    (phase = "done" /\ BannerNoiseObject(payload))
        => extracted = Some(FromFirstBracket(AfterBanner(payload)))

\* the brackets of s are correctly nested and matched by type
RECURSIVE NestedFrom(_, _, _)
NestedFrom(s, i, open) ==
    IF i > Len(s) THEN open = << >>
    ELSE IF s[i] \in Openers THEN NestedFrom(s, i + 1, Append(open, s[i]))
    ELSE IF s[i] \in Closers
         THEN /\ open # << >>
              /\ ~Mismatch(open[Len(open)], s[i])
              /\ NestedFrom(s, i + 1, SubSeq(open, 1, Len(open) - 1))
    ELSE NestedFrom(s, i + 1, open)

WellNested(s) == NestedFrom(s, 1, << >>)

\* C2: extract_first_json returns none or a text whose brackets are correctly
\* nested and matched by type.
C2_ResultWellNested ==
    (phase = "done" /\ extracted # None) => WellNested(extracted[1])

\* C3: for a text without any of the characters { [ } ], extract_first_json
\* returns none.
C3_NoBracketsNone ==
    (phase = "done" /\ NoBrackets(payload)) => extracted = None

\* C3's case: the function was applied to a text of several characters, none a bracket
C3_Witness ==
    phase = "done" /\ NoBrackets(payload) /\ Len(payload) >= 3 /\ extracted = None


\* position i of s is where a prompt banner starts
BannerAt(s, i) == StartsWith(SubSeq(s, i, Len(s)), Banner)

\* the position where the structure opened at position i of s closes, the
\* brackets in between being correctly nested and matched and no prompt
\* being inside; 0 if there is none
RECURSIVE BalancedEnd(_, _, _)
BalancedEnd(s, i, open) ==
    IF i > Len(s) \/ BannerAt(s, i) THEN 0
    ELSE IF s[i] \in Openers THEN BalancedEnd(s, i + 1, Append(open, s[i]))
    ELSE IF s[i] \in Closers
         THEN IF open = << >> \/ Mismatch(open[Len(open)], s[i]) THEN 0
              ELSE IF Len(open) = 1 THEN i
              ELSE BalancedEnd(s, i + 1, SubSeq(open, 1, Len(open) - 1))
    ELSE BalancedEnd(s, i + 1, open)

\* the opening brackets of s that are not the bracket of a prompt banner
OpenersOf(s) == { i \in 1..Len(s) : s[i] \in Openers /\ ~BannerAt(s, i) }

\* the first of them, 0 if there is none; what comes before it is noise:
\* banners, closing brackets met while nothing is open, other text
FirstOpener(s) ==
    IF OpenersOf(s) = {} THEN 0
    ELSE CHOOSE i \in OpenersOf(s) : \A j \in OpenersOf(s) : i <= j

\* the first top-level balanced structure of s, none if the first opening
\* bracket opens none
FirstStructure(s) ==
    LET b == FirstOpener(s)
        e == IF b = 0 THEN 0 ELSE BalancedEnd(s, b, << >>)
    IN  IF e = 0 THEN None ELSE Some(SubSeq(s, b, e))

\* the text of s after its first top-level structure
AfterFirstStructure(s) ==
    SubSeq(s, BalancedEnd(s, FirstOpener(s), << >>) + 1, Len(s))

\* s has a first top-level balanced structure and, after it and whatever
\* noise, at least one more
SeveralStructures(s) ==
    /\ FirstStructure(s) # None
    /\ \E k \in OpenersOf(AfterFirstStructure(s)) :
           BalancedEnd(AfterFirstStructure(s), k, << >>) # 0

\* C25: for a text with two or more top-level balanced bracket structures
\* separated by noise (prompts, text, closing brackets met while nothing is
\* open, trailing garbage), extract_first_json returns the one that starts
\* first, never a later one; the stray closing brackets change nothing.
C25_FirstStructureWins ==
    (phase = "done" /\ SeveralStructures(payload))
        => extracted = FirstStructure(payload)

\* a stray closing bracket, a list, a letter and an object: the list came out
C25_Witness ==
    /\ phase = "done"
    /\ payload = << "]", "[", "]", "a", "{", "}" >>
    /\ SeveralStructures(payload)
    /\ extracted = Some(<< "[", "]" >>)

\* the closing bracket of the type of an opening bracket
CloserOf(open_char) == IF open_char = "{" THEN "}" ELSE "]"

\* C27: a result of extract_first_json that is not none begins with an
\* opening bracket, ends with the closing bracket of that bracket's type, is
\* a contiguous part of the text left by the removal of the prompts, and
\* has no "[sudo]" in it.
C27_ResultShape ==
    (phase = "done" /\ extracted # None) =>
        LET r == extracted[1]
        IN  /\ Len(r) >= 2
            /\ r[1] \in Openers
            /\ r[Len(r)] = CloserOf(r[1])
            /\ Contains(RemoveSudoRuns(payload), r)
            /\ ~Contains(r, SudoTag)

\* a prompt inside a list: the prompt and the closer after it were removed
\* and the list of what was left came out
C27_Witness ==
    /\ phase = "done"
    /\ payload = << "[" >> \o Banner \o << "]", "[", "]", "]" >>
    /\ extracted = Some(<< "[", "[", "]", "]" >>)

\* C28: extract_first_json gives its own result back: when it returns r for
\* a text, it returns r for r.
C28_Idempotent ==
    (phase = "done" /\ extracted # None) =>
        extract_first_json(extracted[1]) = extracted

\* a result with a closer of the wrong type inside, taken from a text with
\* noise around it, and returned for itself
C28_Witness ==
    /\ phase = "done"
    /\ payload = << "]", "[", "[", "}", "]", "a" >>
    /\ extracted = Some(<< "[", "[", "}", "]" >>)
    /\ extract_first_json(extracted[1]) = extracted

(***************************************************************************)
(* Properties of the status parser.                                        *)
(***************************************************************************)
\* the first position of the line of s that holds position i
RECURSIVE LineStart(_, _)
LineStart(s, i) == IF i = 1 \/ s[i - 1] = "\n" THEN i ELSE LineStart(s, i - 1)

\* the last position of the line of s that holds position i
RECURSIVE LineEnd(_, _)
LineEnd(s, i) == IF i = Len(s) \/ s[i + 1] = "\n" THEN i ELSE LineEnd(s, i + 1)

\* position e holds the first "=" of its line
FirstEqualsOfLine(s, e) ==
    /\ s[e] = "="
    /\ \A k \in LineStart(s, e)..(e - 1) : s[k] # "="

\* the positions where a line of s sets the property ActiveState
ActiveStateAt(s) ==
    { e \in 1..Len(s) :
        FirstEqualsOfLine(s, e) /\ SubSeq(s, LineStart(s, e), e - 1) = ActiveStateKey }

\* s has the line "ActiveState=active"
HasActiveLine(s) ==
    \E e \in ActiveStateAt(s) : SubSeq(s, e + 1, LineEnd(s, e)) = active

\* C6: get_service_status reads the text as key=value lines, cut at the first
\* "=" only, lines without "=" skipped, and returns the value of ActiveState;
\* a dump with the line ActiveState=active gives active.
C6_ActiveStateValue ==
    phase = "done" =>
        /\ \A e \in ActiveStateAt(dump) : status = Some(SubSeq(dump, e + 1, LineEnd(dump, e)))
        /\ ActiveStateAt(dump) = {} => status = None
        /\ HasActiveLine(dump) => status = Some(active)

\* C6's case: the dump ActiveState=active / SubState=running was parsed
C6_Witness ==
    /\ phase = "done"
    /\ dump = ActiveStateKey \o << "=" >> \o active \o << "\n" >> \o SubStateRunning
    /\ status = Some(active)

(***************************************************************************)
(* Properties of the executor, the recovery procedure and the service      *)
(* controller, under Spec.                                                 *)
(***************************************************************************)

\* the settings file says service_enabled is false
FlagFalse == settings.file = "json" /\ settings.service_enabled = Some(FALSE)

\* the settings file is missing or unparsable, or has no key service_enabled
FlagAbsent == settings.file # "json" \/ settings.service_enabled = None

\* C4: with service_enabled false, run_zerotier_cli returns the empty string
\* and spawns no process; with the flag absent or the settings file missing
\* or unparsable, the flag counts as true and a process is spawned.
C4_DisabledCliIsNoOp ==
    call.fn = "run_zerotier_cli" =>
        /\ FlagFalse =>
               /\ call.raised = "none"
               /\ call.result = Some(<< >>)
               /\ call.spawns = 0
        /\ FlagAbsent =>
               /\ call.spawns = 1
               /\ call.argv = << "flatpak-spawn", "--host", "sudo", "-S" >> \o call.command

\* C4's case: the tool was called with the flag false, and nothing was spawned
C4_Witness ==
    /\ call.fn = "run_zerotier_cli"
    /\ FlagFalse
    /\ call.command = CliCommand(<< "-j", "listnetworks" >>)
    /\ call.result = Some(<< >>)
    /\ call.spawns = 0

\* C5: run_command with a working directory that does not exist raises
\* FileNotFoundError before the argv is wrapped and before anything is
\* spawned, with and without privilege.
C5_MissingDirectoryNoSpawn ==
    (call.fn = "run_command" /\ ~call.cwd_exists) =>
        /\ call.raised = "FileNotFoundError"
        /\ call.spawns = 0
        /\ call.argv = << >>
        /\ call.stdin = None

\* C5's case: an unprivileged call found its working directory missing
C5_Witness ==
    /\ call.fn = "run_command"
    /\ ~call.cwd_exists
    /\ ~call.use_sudo
    /\ call.raised = "FileNotFoundError"
    /\ call.spawns = 0

\* the probe failed in one of the ways that ask for a reinstall
ProbeAsksReinstall(c) ==
    /\ c.fn = "run_zerotier_cli"
    /\ \/ c.raised = "FileNotFoundError"
       \/ c.raised = "CalledProcessError" /\ c.returncode \in { 2, 127 }

\* C7: in Probing, a probe that fails with exit code 2, with exit code 127 or
\* for a missing directory enters reinstall_backend (Reinstalling); when that
\* reinstall returns the procedure is in Probing again, and its next step is
\* a new probe.
C7_ProbeFailureReinstallsThenProbes ==
    [][ /\ (pc = "cfe_probe" /\ pc' # pc) =>
               /\ mode = "Probing"
               /\ call'.fn = "run_zerotier_cli"
               /\ call'.command = CliCommand(<< "listnetworks" >>)
               /\ probes' = Append(probes, ProbeRecord(call'))
               /\ steps' = Append(steps, "probe")
        /\ (pc = "cfe_probe" /\ pc' # pc /\ ProbeAsksReinstall(call')) =>
               /\ mode' = "Reinstalling"
               /\ pc' = "rb_stop"
               /\ callStack' = << "cfe_probe" >>
               /\ reinstalls' = reinstalls + 1
        /\ (pc = "rb_ret" /\ pc' # pc /\ Head(callStack) = "cfe_probe") =>
               /\ pc' = "cfe_probe"
               /\ mode' = "Probing"
      ]_vars

\* C7's case: the first probe ended with exit code 2, the backend was
\* reinstalled and a second probe was run
C7_Witness ==
    /\ Len(probes) = 2
    /\ probes[1] = [raised |-> "CalledProcessError", returncode |-> 2]
    /\ steps = << "probe", "stop", "disable", "install", "enable", "start", "probe" >>

\* what the is-active query printed says the service is inactive or failed
ReportsStartFailed(c) == StartFailed(Strip(RemoveAll(c.output, Banner)))

\* C8: a probe failing with exit code 1 enters StartingService, which starts
\* the service and queries is-active; when the query reports inactive or
\* failed, whatever its exit status, the procedure goes on to Reinstalling.
C8_FailedStartReinstalls ==
    [][ /\ (pc = "cfe_probe" /\ pc' # pc /\ call'.raised = "CalledProcessError"
               /\ call'.returncode = 1) =>
               (mode' = "StartingService" /\ pc' = "rue_start")
        /\ (pc = "rue_start" /\ pc' # pc) =>
               (msAction' = "start" /\ Head(callStack') = "rue_isactive")
        /\ (pc = "rue_isactive" /\ pc' # pc /\ ReportsStartFailed(call')) =>
               (pc' = "rue_logs" /\ StartFailed(running'))
        /\ (pc = "rue_logs" /\ pc' # pc /\ StartFailed(running)) =>
               mode' = "Reinstalling"
      ]_vars

\* the number of installs among the steps
Installs(s) == Cardinality({ i \in 1..Len(s) : s[i] = "install" })

\* C9: when the first probe fails with exit code 127 and the second probe
\* succeeds, the steps were exactly probe, stop, disable, install, enable,
\* start, probe, the procedure is Resolved, and there was one reinstall.
C9_EndToEnd127 ==
    probes = << [raised |-> "CalledProcessError", returncode |-> 127],
                [raised |-> "none", returncode |-> 0] >> =>
        /\ steps = << "probe", "stop", "disable", "install", "enable", "start", "probe" >>
        /\ mode = "Resolved"
        /\ pc = "mw_init"
        /\ Installs(steps) = 1

\* C9's case: exit code 127, then a reinstall, then a successful probe
C9_Witness ==
    /\ probes = << [raised |-> "CalledProcessError", returncode |-> 127],
                   [raised |-> "none", returncode |-> 0] >>
    /\ mode = "Resolved"
    /\ Installs(steps) = 1

\* C10: manage_service issues the unprivileged user-scope invocation first;
\* the privileged system-scope invocation of the same action is issued after
\* it, and exactly when the user-scope one exited non-zero; when the
\* user-scope one succeeds its output is returned and nothing privileged is
\* spawned.
C10_UserScopeThenSystemScope ==
    /\ Len(msLog) <= 2
    /\ pc = "ms_ret" => msLog # << >>
    /\ msLog # << >> =>
           /\ msLog[1].scope = "user"
           /\ ~msLog[1].use_sudo
           /\ msLog[1].argv = << "flatpak-spawn", "--host", "systemctl", "--user",
                                 msLog[1].action, "zerotier-one" >>
    /\ Len(msLog) = 2 =>
           /\ msLog[2].scope = "system"
           /\ msLog[2].use_sudo
           /\ msLog[2].action = msLog[1].action
           /\ msLog[2].argv = << "flatpak-spawn", "--host", "sudo", "-S", "systemctl",
                                 msLog[1].action, "zerotier-one" >>
           /\ msLog[1].raised = "CalledProcessError"
           /\ msLog[1].returncode # 0
    /\ (pc \in { "ms_sys", "ms_ret" } /\ msLog[1].raised = "CalledProcessError") =>
           (pc = "ms_sys" /\ Len(msLog) = 1) \/ (pc = "ms_ret" /\ Len(msLog) = 2)
    /\ (pc = "ms_ret" /\ msLog[1].raised = "none") =>
           /\ Len(msLog) = 1
           /\ ~call.use_sudo
           /\ msResult = Some(call.output)

\* C10's case: the user-scope invocation failed and the system-scope one of
\* the same action was issued after it
C10_Witness ==
    /\ pc = "ms_ret"
    /\ Len(msLog) = 2
    /\ msLog[1].returncode = 1
    /\ msLog[2].raised = "none"
    /\ msLog[2].action = "stop"

\* both invocations of a manage_service call exited non-zero
BothScopesFailed ==
    /\ Len(msLog) = 2
    /\ msLog[1].raised = "CalledProcessError"
    /\ msLog[2].raised = "CalledProcessError"

\* C11: when the user-scope and the system-scope invocation both fail,
\* manage_service does not return normally to its caller.
C11_BothFailuresSurface ==
    BothScopesFailed => pc # "ms_ret"

\* the process of the call was spawned and has exited
ProcessExited(c) == c.spawns = 1 /\ c.raised \notin { "FileNotFoundError", "TypeError" }

\* C12: when the process spawned by run_command exits non-zero, run_command
\* raises CalledProcessError with that exit code and with the captured output
\* as it is, the prompt banner not stripped; when it exits zero, run_command
\* returns normally.
C12_NonZeroExitRaisesRawOutput ==
    (call.fn = "run_command" /\ ProcessExited(call)) =>
        /\ call.returncode # 0 =>
               /\ call.raised = "CalledProcessError"
               /\ call.error = Some([returncode |-> call.returncode,
                                     output |-> call.output])
               /\ call.result = None
        /\ call.returncode = 0 =>
               /\ call.raised = "none"
               /\ call.error = None
               /\ call.result # None

\* C12's case: a privileged process printed the banner and exited with 5
C12_Witness ==
    /\ call.fn = "run_command"
    /\ call.use_sudo
    /\ call.returncode = 5
    /\ StartsWith(call.output, Banner)
    /\ call.error # None
    /\ StartsWith(call.error[1].output, Banner)

\* C13: no text that run_command or run_zerotier_cli returns as the result
\* of a command holds the prompt banner, also when run_zerotier_cli merges
\* the error stream into the output.
C13_ReturnedTextHasNoBanner ==
    (call.raised = "none" /\ call.result # None) =>
        ~Contains(call.result[1], Banner)

C15_CredentialNonEmptyWhenPrivileged ==
    (call.use_sudo /\ call.spawns = 1) =>
        SUDO_PASSWORD \notin { None, Some(<< >>) }

\* the call made by the step is a failed call of the backend tool
CliFailed(c) == c.fn = "run_zerotier_cli" /\ c.raised = "CalledProcessError"

\* C16: when the backend tool fails, run_zerotier_cli raises an error with
\* the tool's exit code and does nothing else (one process, no service
\* action, no reinstall of its own); check_for_errors puts the code in
\* exactly one class: 2 no authorization, 1 service not running, 127 not
\* installed, anything else unknown.
C16_CliRaisesAndRecoveryClassifies ==
    [][ /\ (call'.fn = "run_zerotier_cli" /\ ProcessExited(call')
               /\ call'.returncode # 0) =>
               /\ call'.raised = "CalledProcessError"
               /\ call'.error # None
               /\ call'.error[1].returncode = call'.returncode
               /\ call'.spawns = 1
               /\ call'.argv = << "flatpak-spawn", "--host", "sudo", "-S" >>
                                   \o call'.command
        /\ (CliFailed(call') /\ pc \notin { "cfe_probe", "rue_probe" }
               /\ ztDir' = ztDir) =>
               /\ UNCHANGED << reinstalls, steps, probes, msLog, msAction >>
               /\ mode' \in { mode, "Crashed" }
               /\ pc' \in { "gui", "crashed" }
        /\ (CliFailed(call') /\ pc = "cfe_probe") =>
               LET code == call'.error[1].returncode
               IN  /\ Cardinality(ErrorClasses(code)) = 1
                   /\ code = 2 <=> ErrorClasses(code) = { "no_authorization" }
                   /\ code = 1 <=> ErrorClasses(code) = { "service_not_running" }
                   /\ code = 127 <=> ErrorClasses(code) = { "not_installed" }
                   /\ code \notin { 1, 2, 127 } <=> ErrorClasses(code) = { "unknown" }
                   /\ ErrorClasses(code) = { "no_authorization" } => pc' = "rb_stop"
                   /\ ErrorClasses(code) = { "service_not_running" } => pc' = "rue_start"
                   /\ ErrorClasses(code) = { "not_installed" } => pc' = "rb_stop"
                   /\ ErrorClasses(code) = { "unknown" } => pc' = "mw_init"
      ]_vars

\* C16's case: a probe ended with exit code 5, which is none of 1, 2, 127
C16_Witness ==
    /\ CliFailed(call)
    /\ call.error = Some([returncode |-> 5, output |-> << >>])
    /\ Len(probes) = 1
    /\ pc = "mw_init"

\* C17: when the install of a reinstall started by the diagnosis succeeds,
\* whether the reinstall was entered from the probe loop or from
\* resolve_unknown_error, enable and start follow, the procedure is back in
\* Probing and probes again; the diagnosis never ends with a reinstall
\* after its last probe.
C17_ReinstallAlwaysReprobes ==
    [][ /\ (pc = "rb_install" /\ pc' # pc /\ call'.raised = "none") =>
               pc' = "rb_enable"
        /\ (pc = "rb_enable" /\ pc' # pc) =>
               (msAction' = "enable" /\ Head(callStack') = "rb_start")
        /\ (pc = "rb_start" /\ pc' # pc) =>
               (msAction' = "start" /\ Head(callStack') = "rb_ret")
        /\ (pc = "rb_ret" /\ pc' # pc /\ Head(callStack) # "main_test") =>
               (pc' = "cfe_probe" /\ mode' = "Probing")
        /\ (pc' = "mw_init" /\ pc # "mw_init" /\ mode' # "Disabled") =>
               steps'[Len(steps')] = "probe"
      ]_vars

\* C18: a probe of check_for_errors that fails with an exit code other than
\* 1, 2 and 127 stops the run in Fatal (or starts a reinstall): the run is
\* not Resolved and the program does not go on to build the main window.
ProbeFailedWithOtherCode(c) ==
    /\ CliFailed(c)
    /\ c.returncode \notin { 1, 2, 127 }

C18_OtherCodeIsFatal ==
    [][ (pc = "cfe_probe" /\ pc' # pc /\ ProbeFailedWithOtherCode(call')) =>
            /\ mode' \in { "Fatal", "Reinstalling" }
            /\ pc' # "mw_init"
      ]_vars

\* the steps the diagnosis recorded last
StepsEndWith(names) ==
    /\ Len(steps) >= Len(names)
    /\ SubSeq(steps, Len(steps) - Len(names) + 1, Len(steps)) = names

\* manage_service(action), called by the stop/disable part of
\* reinstall_backend, is at the step named by at
InStopOrDisable(at) ==
    /\ pc = at
    /\ \/ msAction = "stop" /\ Head(callStack) = "rb_disable"
       \/ msAction = "disable" /\ Head(callStack) = "rb_install"

\* C19: reinstall_backend runs stop, disable, install and, when the install
\* succeeded, enable, start, in that order; a stop or a disable that fails
\* with an exit code, 5 or another, returns to reinstall_backend where it
\* was called, so that disable follows a failed stop and the install is run
\* after both.
C19_StopDisableFailuresDoNotAbort ==
    [][ /\ (pc' = "rb_install" /\ pc # pc') =>
               StepsEndWith(<< "stop", "disable" >>)'
        /\ (pc = "rb_install" /\ pc # pc') =>
               /\ call'.command = InstallCommand
               /\ call'.spawns = 1
               /\ StepsEndWith(<< "stop", "disable", "install" >>)'
        /\ (pc' = "rb_ret" /\ pc # pc') =>
               StepsEndWith(<< "stop", "disable", "install", "enable", "start" >>)'
        /\ (InStopOrDisable("ms_sys") /\ pc # pc' /\ call'.raised = "CalledProcessError") =>
               /\ pc' = "ms_ret"
               /\ callStack' = callStack
        /\ (InStopOrDisable("ms_ret") /\ pc # pc') =>
               /\ pc' = Head(callStack)
               /\ pc' = IF msAction = "stop" THEN "rb_disable" ELSE "rb_install"
      ]_vars

\* the disable of a reinstall has failed in both scopes, with the code 5 in
\* the system scope, and returns to the install
C19_Witness ==
    /\ InStopOrDisable("ms_ret")
    /\ msAction = "disable"
    /\ BothScopesFailed
    /\ msLog[2].returncode = 5
    /\ StepsEndWith(<< "stop", "disable" >>)

\* the install of reinstall_backend ended with a non-zero exit
InstallFailed(c) ==
    /\ c.command = InstallCommand
    /\ c.raised = "CalledProcessError"

\* C20: when the install of reinstall_backend exits non-zero the run enters
\* Fatal and the program exits; from then on nothing is run: no enable, no
\* start, no probe, no other command, and the failed install stays the last
\* call made.
C20_InstallFailureIsFinal ==
    [][ /\ (pc = "rb_install" /\ pc # pc' /\ InstallFailed(call')) =>
               /\ mode' = "Fatal"
               /\ pc' = "exited"
               /\ callStack' = << >>
        /\ mode' = "Fatal" => InstallFailed(call')
        /\ mode # "Fatal"
      ]_vars

\* the install has failed after stop and disable, and the program has exited
C20_Witness ==
    /\ mode = "Fatal"
    /\ pc = "exited"
    /\ InstallFailed(call)
    /\ call.returncode # 0
    /\ StepsEndWith(<< "stop", "disable", "install" >>)

\* C21: in resolve_unknown_error, when the state read by is-active contains
\* neither 'inactive' nor 'failed' the probe is run again; when it succeeds
\* the diagnosis ends Resolved and no reinstall is made; when it fails,
\* with whatever exit code, reinstall_backend is called.
C21_SecondProbeDecides ==
    [][ /\ (pc = "rue_logs" /\ pc # pc') =>
               pc' = IF StartFailed(running) THEN "rb_stop" ELSE "rue_probe"
        /\ (pc = "rue_probe" /\ pc # pc') =>
               /\ ~StartFailed(running)
               /\ call'.command = CliCommand(<< "listnetworks" >>)
               /\ call'.raised = "none" =>
                      /\ pc' = "rue_ret"
                      /\ mode' = "Resolved"
                      /\ reinstalls' = reinstalls
               /\ CliFailed(call') =>
                      /\ pc' = "rb_stop"
                      /\ mode' = "Reinstalling"
                      /\ reinstalls' = reinstalls + 1
                      /\ Head(callStack') = "rue_ret"
        /\ (mode = "Resolved" /\ pc \in { "rue_ret", "cfe_after_resolve" } /\ pc # pc') =>
               /\ mode' = "Resolved"
               /\ reinstalls' = reinstalls
               /\ pc' \in { "cfe_after_resolve", "mw_init" }
      ]_vars

\* the second probe has failed with a code the loop of check_for_errors
\* does not reinstall for, and reinstall_backend has been called
C21_Witness ==
    /\ pc = "rb_stop"
    /\ callStack # << >>
    /\ Head(callStack) = "rue_ret"
    /\ ~StartFailed(running)
    /\ CliFailed(call)
    /\ call.returncode = 5
    /\ mode = "Reinstalling"

\* the two prefixes, written out
SandboxHop(debug) == IF debug THEN << >> ELSE << "flatpak-spawn", "--host" >>
PrivilegePrefix(use_sudo) == IF use_sudo THEN << "sudo", "-S" >> ELSE << >>

\* C23: the argv a call spawns is the caller's argv, unchanged, behind
\* ['sudo','-S'] exactly when the call is privileged and, outside that,
\* ['flatpak-spawn','--host'] exactly when the debug flag is off; the argv
\* of run_zerotier_cli is always privileged and starts with the tool and
\* '-D' + the data directory.
C23_ArgvPrefixes ==
    /\ call.spawns = 1 =>
           LET n == Len(call.argv) - Len(call.command)
           IN  /\ n >= 0
               /\ SubSeq(call.argv, n + 1, Len(call.argv)) = call.command
               /\ SubSeq(call.argv, 1, n) =
                      SandboxHop(DEBUG_MODE) \o PrivilegePrefix(call.use_sudo)
    /\ call.fn # "" =>
           \A debug \in BOOLEAN, use_sudo \in BOOLEAN :
               AddPrefixes(call.command, use_sudo, debug) =
                   SandboxHop(debug) \o PrivilegePrefix(use_sudo) \o call.command
    /\ call.fn = "run_zerotier_cli" =>
           /\ call.use_sudo
           /\ Len(call.command) >= 2
           /\ call.command[1] = "./zerotier-cli"
           /\ call.command[2] = "-D/home/u/.zerotier-one"
           /\ call.cwd = ZtDirPath

\* the backend tool has been spawned with both prefixes and an argument
C23_Witness ==
    /\ call.fn = "run_zerotier_cli"
    /\ call.spawns = 1
    /\ call.argv = << "flatpak-spawn", "--host", "sudo", "-S", "./zerotier-cli",
                      "-D/home/u/.zerotier-one", "listnetworks" >>

\* a probe that ended with the code 2 or 127, or on the missing directory
BrokenProbe(p) ==
    \/ p.raised = "CalledProcessError" /\ p.returncode \in { 2, 127 }
    \/ p.raised = "FileNotFoundError"

\* every probe of the run so far ended that way
AllProbesBroken ==
    /\ probes # << >>
    /\ \A i \in 1..Len(probes) : BrokenProbe(probes[i])

\* C22: check_for_errors has no retry cap. A probe that fails with 2 or
\* 127, or on the missing directory, calls reinstall_backend whatever the
\* number of reinstalls made before, and a reinstall that succeeds returns
\* to the probe; while every probe fails that way and no install fails the
\* run is probing or reinstalling, never Resolved, never Fatal, never past
\* check_for_errors.
C22_NoRetryCap ==
    [][ /\ (pc = "cfe_probe" /\ pc # pc' /\ BrokenProbe(ProbeRecord(call'))) =>
               /\ pc' = "rb_stop"
               /\ Head(callStack') = "cfe_probe"
               /\ reinstalls' = reinstalls + 1
               /\ mode' = "Reinstalling"
        /\ (pc = "rb_ret" /\ pc # pc' /\ Head(callStack) = "cfe_probe") =>
               /\ pc' = "cfe_probe"
               /\ mode' = "Probing"
               /\ reinstalls' = reinstalls
        /\ (AllProbesBroken' /\ ~InstallFailed(call')) =>
               /\ mode' \in { "Probing", "Reinstalling" }
               /\ pc' \notin { "mw_init", "exited" }
      ]_vars

\* the loop is back at the probe after as many reinstalls as the model
\* allows, every probe having failed
C22_Witness ==
    /\ pc = "cfe_probe"
    /\ mode = "Probing"
    /\ AllProbesBroken
    /\ Len(probes) >= 2
    /\ reinstalls = MaxReinstalls

\* a call returned a text in which extract_first_json finds no structure
NothingExtracted(c, strip) ==
    /\ c.raised = "none"
    /\ c.result # None
    /\ extract_first_json(IF strip THEN Strip(c.result[1]) ELSE c.result[1]) = None

\* C24: when extract_first_json finds no balanced structure in what the
\* tool returned (as for the empty text a disabled service gives),
\* get_networks_info, get_peers_info and get_interface_state raise the
\* error of json.loads; the handler that called them is abandoned, none
\* goes on with an empty list.
C24_NoStructureIsAnError ==
    [][ /\ (pc \in { "rn_list", "rn_names" } /\ pc # pc' /\ NothingExtracted(call', FALSE)) =>
               /\ NetworksOutcome(call') = "TypeError"
               /\ pc' \in { "gui", "crashed" }
               /\ callStack' = << >>
        /\ (pc = "rn_iface" /\ pc # pc' /\ NothingExtracted(call', TRUE)) =>
               /\ InterfaceOutcome(call') = "TypeError"
               /\ pc' \in { "gui", "crashed" }
               /\ callStack' = << >>
        /\ (call'.command = CliCommand(<< "-j", "peers" >>) /\ NothingExtracted(call', FALSE)) =>
               PeersOutcome(call') = "TypeError"
      ]_vars

\* the refresh button was used with the service disabled: the tool was not
\* run, the empty text gave no structure and the handler was abandoned
C24_Witness ==
    /\ pc = "gui"
    /\ ~ServiceEnabled
    /\ call.command = CliCommand(<< "-j", "listnetworks" >>)
    /\ call.spawns = 0
    /\ call.result = Some(<< >>)
    /\ NothingExtracted(call, FALSE)
    /\ NetworksOutcome(call) = "TypeError"

\* the call is the privileged test execution of __main__
IsCredentialTest(c) ==
    /\ c.fn = "run_command"
    /\ c.command = << "true" >>
    /\ c.use_sudo

\* C26: __main__ issues a privileged test execution; when it fails with a
\* CalledProcessError the credential is asked for again and the test
\* repeated, when it fails on the missing directory reinstall_backend runs
\* and the test is repeated; disable_duplicate_zerotier, and so the probe
\* after it, is entered only from a test that succeeded with the credential
\* then held, which nothing changes afterwards.
C26_TestedCredentialBeforeDiagnosis ==
    [][ /\ (pc = "main_test" /\ pc # pc') =>
               /\ IsCredentialTest(call')
               /\ call'.raised = "CalledProcessError" =>
                      (pc' = "main_ask" /\ reinstalls' = reinstalls)
               /\ call'.raised = "FileNotFoundError" =>
                      /\ pc' = "rb_stop"
                      /\ Head(callStack') = "main_test"
                      /\ reinstalls' = reinstalls + 1
               /\ call'.raised = "none" => pc' = "dup_check"
        /\ (pc = "main_ask" /\ pc # pc') => pc' = "main_test"
        /\ (pc = "rb_ret" /\ pc # pc' /\ Head(callStack) = "main_test") =>
               pc' = "main_test"
        /\ (pc' = "dup_check" /\ pc # pc') =>
               /\ pc = "main_test"
               /\ IsCredentialTest(call')
               /\ call'.spawns = 1
               /\ call'.raised = "none"
               /\ call'.stdin = Some(SUDO_PASSWORD'[1] \o << "\n" >>)
        /\ (pc' \in { "cfe_enter", "cfe_probe" } /\ pc # pc') =>
               pc \in { "dup_check", "dup_disable", "dup_stop", "cfe_enter", "rb_ret" }
        /\ (pc' = "main_ask" /\ pc # pc') => pc = "main_test"
        /\ (pc' = "main_test" /\ pc # pc') => pc \in { "main_ask", "rb_ret" }
        /\ pc # "main_ask" => SUDO_PASSWORD' = SUDO_PASSWORD
      ]_vars

\* the test has succeeded, after a failed test with another credential and a
\* reinstall for the missing directory
C26_Witness ==
    /\ pc = "dup_check"
    /\ IsCredentialTest(call)
    /\ call.raised = "none"
    /\ call.stdin = Some(<< "p", "w", "\n" >>)
    /\ reinstalls >= 1

\* the query of line 1681
IsActiveQuery == << "systemctl", "--user", "is-active", "zerotier-one" >>

\* C29: resolve_unknown_error asks for the state with one unprivileged
\* user-scope execution, not through manage_service; when it exits non-zero
\* its CalledProcessError is caught nowhere: no reinstall, no other probe,
\* nothing else runs, and the run is neither Resolved nor Fatal.
C29_IsActiveFailureUncaught ==
    [][ /\ (pc = "rue_isactive" /\ pc # pc') =>
               /\ call'.fn = "run_command"
               /\ call'.command = IsActiveQuery
               /\ ~call'.use_sudo
               /\ call'.spawns = 1
               /\ call'.stdin = None
               /\ msLog' = << >>
               /\ pc' \notin { "ms_user", "ms_sys" }
               /\ call'.raised = "CalledProcessError" =>
                      /\ pc' = "crashed"
                      /\ callStack' = << >>
                      /\ mode' \notin { "Resolved", "Fatal" }
                      /\ reinstalls' = reinstalls
                      /\ probes' = probes
        /\ pc # "crashed"
      ]_vars

\* the query has exited non-zero after the start and the program has ended
\* on the error
C29_Witness ==
    /\ pc = "crashed"
    /\ call.command = IsActiveQuery
    /\ call.raised = "CalledProcessError"
    /\ call.returncode # 0
    /\ StepsEndWith(<< "probe", "start", "is-active" >>)
    /\ reinstalls = 0

\* the settings file holds service_enabled false
PersistedDisabled(file) ==
    /\ file.file = "json"
    /\ file.service_enabled = Some(FALSE)

\* the return addresses manage_service has in toggle_service after stop,
\* disable and start
ToggleReturns == { "ts_disable", "ts_label_false", "ts_label_true" }

\* C30: toggle_service, when its status queries succeed, writes
\* service_enabled false exactly when the ActiveState it read first was
\* 'active', after stop then disable, and true otherwise, after start,
\* whether or not those actions succeeded; and run_zerotier_cli spawns
\* nothing exactly when the file holds false.
C30_TogglePersistsFlag ==
    [][ /\ (pc = "ts_state" /\ pc # pc' /\ LabelOutcome(msResult) = "ok") =>
               /\ steps'[1] = IF get_service_status(msResult[1]) = Some(active)
                              THEN "read active" ELSE "read other"
               /\ msAction' = IF get_service_status(msResult[1]) = Some(active)
                              THEN "stop" ELSE "start"
        /\ (pc = "ms_ret" /\ pc # pc' /\ Head(callStack) \in ToggleReturns) =>
               pc' = Head(callStack)
        /\ (pc = "usl_set" /\ pc # pc' /\ LabelOutcome(msResult) = "ok"
                /\ Head(callStack) \in { "ts_save_false", "ts_save_true" }) =>
               pc' = Head(callStack)
        /\ (pc \in { "ts_save_false", "ts_save_true" } /\ pc # pc') =>
               /\ settings'.file = "json"
               /\ settings'.service_enabled \in { Some(TRUE), Some(FALSE) }
               /\ PersistedDisabled(settings') <=> steps[1] = "read active"
               /\ steps = IF steps[1] = "read active"
                          THEN << "read active", "stop", "disable", "show" >>
                          ELSE << "read other", "start", "show" >>
        /\ call'.fn = "run_zerotier_cli" =>
               (call'.spawns = 0 <=> PersistedDisabled(settings'))
      ]_vars

\* the service was read active and toggled, the file holds false although
\* the label read afterwards still says active, and a later command of the
\* backend tool was not run
C30_Witness ==
    /\ pc = "gui"
    /\ steps = << "read active", "stop", "disable", "show", "save" >>
    /\ PersistedDisabled(settings)
    /\ serviceLabel = Some(active)
    /\ call.fn = "run_zerotier_cli"
    /\ call.spawns = 0
    /\ call.result = Some(<< >>)

=============================================================================
